---- MODULE Spec2Model ----
(***************************************************************************)
(* A model of plsalloc: the facade (do_alloc, do_dealloc, chunk_size,      *)
(* valid_chunk), the region provider (sysAlloc), the thread caches, the    *)
(* central free lists, the blocked deque and the large heap.               *)
(*                                                                         *)
(* Addresses are integers. TLC's integers are 32 bits wide, so the two     *)
(* regions are placed at 2 MiB-aligned addresses below 2^31; the code uses *)
(* the bases only in differences, comparisons and as 2 MiB-aligned         *)
(* origins, all of which the placement keeps.                              *)
(*                                                                         *)
(* Atomicity: a critical section (central-list lock, large-heap lock, with *)
(* the nested region lock) is one step; work on caller-owned data outside  *)
(* the locks is a step of its own.                                         *)
(***************************************************************************)
EXTENDS Integers, Sequences, FiniteSets, Bags, TLC

(* ------------------------------ bounds -------------------------------- *)

\* Calls (do_alloc + do_dealloc) a run of Spec starts.
MaxOps == 4
\* Calls a run of SpecLH (a client with large requests only) starts.
MaxLargeOps == 7
\* Calls a run of SpecLHQ (large requests, size queries, stray frees) starts.
MaxQueryOps == 6

\* Threads at the ticket mutex in the runs of SpecMutex that start with the
\* lock free, and the lock, trylock and unlock calls a run makes.
MaxMutexThreads == 3
MaxMutexCalls == 5

\* Calls a run of SpecDonate makes from the state with a full thread cache.
MaxDonateOps == 3

\* Threads that call in while the allocator starts up, and the do_alloc and
\* do_dealloc calls they make.
MaxBootThreads == 2
MaxBootCalls == 4

\* Deque calls a run of SpecDeque makes after its first state.
MaxDequeOps == 4

\* sysAlloc calls and pointer checks a run of SpecSys starts.
MaxSysOps == 4

\* Calls of the central list's methods (and takings of the caller's deque)
\* a run of SpecCentral starts.
MaxCentralOps == 3

\* Deque calls a run of SpecLinks makes after its first state.
MaxLinkOps == 4

\* Threads and calls in a run of SpecLocks.
MaxLockThreads == 2
MaxLockCalls == 3

\* Thread ids in use (sim_get_tid), each used by one thread at a time.
Threads == {1, 2}
\* Request sizes the client draws from: the two ends of class 1 (1, 64), the
\* small-object ceiling (16320) and large sizes from 16321 on.
SmallSizes == {1, 64, 16320}
LargeSizes == {16321, 40000}
\* The sizes of the client of SpecLH; two requests of 600000 bytes do not
\* fit one 1 MiB span.
HeapSizes == {16321, 40000, 600000}
\* do_alloc takes any of them and picks the path itself.
Sizes == SmallSizes \cup LargeSizes

(* ------------------------------ layout -------------------------------- *)

NULL == 0
trackedBase == 1073741824
untrackedBase == 1610612736

Min(a, b) == IF a < b THEN a ELSE b
Max(a, b) == IF a > b THEN a ELSE b
SetMin(S) == CHOOSE x \in S : \A y \in S : x <= y
SetMax(S) == CHOOSE x \in S : \A y \in S : x >= y

kPageBits == 15
kPageSize == 32768
sizeToPages(sz) == (sz + kPageSize - 1) \div kPageSize

kMaxClasses == 256
sizeToClass(sz) == (sz + 63) \div 64
classToSize(cl) == cl * 64
\* isLargeAlloc with the threshold one class low.
isLargeAllocFrom255(sz) == sizeToClass(sz) >= kMaxClasses - 1
isLargeAlloc(sz) == sizeToClass(sz) >= kMaxClasses

kMaxThreads == 2048
kMaxThreadCacheSize == 4096 * 1024
kFetchTargetSize == 32 * 1024
DQBLOCK_SIZE == 32

\* sizeof(AllocState) on x86-64: 256 line-aligned central lists (64 bytes),
\* the large heap (two maps and the lock, 128 bytes), 2048 line-aligned
\* thread caches (8 + 256*32 bytes, padded to 8256), four pointers and the
\* line-aligned region lock.
sizeofAllocState == kMaxClasses * 64 + 128 + kMaxThreads * 8256 + 64 + 64
sizemapBase == untrackedBase + sizeofAllocState

\* The size classes the client's small requests fall in; every other
\* class's lists stay empty and are left out of the state.
Classes == {sizeToClass(n) : n \in SmallSizes}

(* --------------------------- blocked deque ----------------------------- *)
\* A deque is [blocks, phead, ptail]: blocks is the list bhead..btail (prev
\* and next are the list order), each block its 32 slots; bhead = null is
\* blocks = <<>>.

\* A block fresh from the upstream allocator; its slots hold no element yet.
NewBlock == [i \in 1..DQBLOCK_SIZE |-> NULL]
Slot(pos) == (pos % DQBLOCK_SIZE) + 1

DqInit == [blocks |-> << >>, phead |-> 0, ptail |-> 0]
DqSize(d) == d.ptail - d.phead
DqEmpty(d) == d.blocks = << >>

\* The elements in logical order, front to back.
DqElems(d) ==
    [i \in 1..DqSize(d) |->
        LET pos == (d.phead % DQBLOCK_SIZE) + (i - 1)
        IN d.blocks[(pos \div DQBLOCK_SIZE) + 1][(pos % DQBLOCK_SIZE) + 1]]

\* The slot at linear index i (0-based, counted from the head block's slot 0).
DqLin(d, i) == d.blocks[(i \div DQBLOCK_SIZE) + 1][(i % DQBLOCK_SIZE) + 1]

\* The linear index push_back writes next: slot ptail & MASK of btail, or
\* slot 0 of the block expand<false>() appends.
DqTailLin(d) ==
    IF d.ptail % DQBLOCK_SIZE = 0
    THEN Len(d.blocks) * DQBLOCK_SIZE
    ELSE (Len(d.blocks) - 1) * DQBLOCK_SIZE + (d.ptail % DQBLOCK_SIZE)

\* push_back of vals[1], vals[2], ... in turn.
DqPushAll(d, vals) ==
    LET k == Len(vals)
        tl == DqTailLin(d)
        nblocks == IF k = 0 THEN Len(d.blocks)
                   ELSE ((tl + k - 1) \div DQBLOCK_SIZE) + 1
    IN [blocks |-> [b \in 1..nblocks |-> [s \in 1..DQBLOCK_SIZE |->
                      LET i == (b - 1) * DQBLOCK_SIZE + (s - 1)
                      IN IF i >= tl /\ i < tl + k THEN vals[i - tl + 1]
                         ELSE IF b <= Len(d.blocks) THEN d.blocks[b][s]
                         ELSE NULL]],
        phead |-> d.phead, ptail |-> d.ptail + k]

DqPushBack(d, val) == DqPushAll(d, <<val>>)

\* push_front(val): expand<true>() when phead is block-aligned, then the
\* write at slot --phead & MASK of bhead. phead is a uint64_t and wraps below
\* 0 in the code; 2^64 is a multiple of 32, so the integer reads the same in
\* every test and difference the code makes.
DqPushFront(d, val) ==
    LET blocks == IF d.phead % DQBLOCK_SIZE = 0 THEN <<NewBlock>> \o d.blocks
                  ELSE d.blocks
    IN [blocks |-> [blocks EXCEPT ![1][Slot(d.phead - 1)] = val],
        phead |-> d.phead - 1, ptail |-> d.ptail]

\* front() and back().
DqFront(d) == d.blocks[1][Slot(d.phead)]
DqBack(d) == d.blocks[Len(d.blocks)][Slot(d.ptail - 1)]

\* The asserts of pop_front and of the reset() it may call.
DqPopFrontOk(d) ==
    /\ ~DqEmpty(d)
    /\ d.phead + 1 = d.ptail => Len(d.blocks) = 1

\* pop_front that keeps the head block when phead becomes block-aligned.
DqPopFrontNoShrink(d) ==
    IF d.phead + 1 = d.ptail THEN DqInit
    ELSE [blocks |-> d.blocks, phead |-> d.phead + 1, ptail |-> d.ptail]
DqPopFront(d) ==
    IF d.phead + 1 = d.ptail THEN DqInit
    ELSE IF (d.phead + 1) % DQBLOCK_SIZE = 0
    THEN [blocks |-> Tail(d.blocks), phead |-> d.phead + 1, ptail |-> d.ptail]
    ELSE [blocks |-> d.blocks, phead |-> d.phead + 1, ptail |-> d.ptail]

\* The asserts of pop_back and of the reset() it may call.
DqPopBackOk(d) ==
    /\ ~DqEmpty(d)
    /\ d.phead = d.ptail - 1 => Len(d.blocks) = 1

DqPopBack(d) ==
    IF d.phead = d.ptail - 1 THEN DqInit
    ELSE IF (d.ptail - 1) % DQBLOCK_SIZE = 0
    THEN [blocks |-> SubSeq(d.blocks, 1, Len(d.blocks) - 1),
          phead |-> d.phead, ptail |-> d.ptail - 1]
    ELSE [blocks |-> d.blocks, phead |-> d.phead, ptail |-> d.ptail - 1]

\* dequeue_back reading the front slot (bhead, phead) for its result.
DqFrontValue(d) == d.blocks[1][Slot(d.phead)]
DqBackValue(d) == d.blocks[Len(d.blocks)][Slot(d.ptail - 1)]

\* The blocks k dequeue_back calls release: one each time the decremented
\* ptail is block-aligned (shrink<false>(), or reset() for the last block).
DqReleased(d, k) ==
    Cardinality({j \in 1..k : (d.ptail - j) % DQBLOCK_SIZE = 0})

\* Whether k dequeue_back calls in turn all run: no call finds the deque
\* without a block, and a reset() finds phead == ptail.
DqDequeueBackNOk(d, k) ==
    /\ k <= DqSize(d)
    /\ \/ DqReleased(d, k) < Len(d.blocks)
       \/ /\ DqReleased(d, k) = Len(d.blocks)
          /\ (d.ptail - k) % DQBLOCK_SIZE = 0
          /\ d.phead = d.ptail - k

\* The values k dequeue_back calls return, in turn.
DqBackValues(d, k) ==
    [j \in 1..k |-> DqLin(d, DqTailLin(d) - j)]

\* The deque after k dequeue_back calls.
DqDequeueBackN(d, k) ==
    IF DqReleased(d, k) >= Len(d.blocks)
    THEN DqInit
    ELSE [blocks |-> SubSeq(d.blocks, 1, Len(d.blocks) - DqReleased(d, k)),
          phead |-> d.phead, ptail |-> d.ptail - k]

DqDequeueBackOk(d) == ~DqEmpty(d) /\ DqDequeueBackNOk(d, 1)
DqDequeueBack(d) == DqDequeueBackN(d, 1)

\* splice_front(blocks): asserts phead block-aligned and a block left over.
DqSpliceFrontOk(d, blocks) ==
    /\ d.phead % DQBLOCK_SIZE = 0
    /\ blocks >= 1
    /\ Len(d.blocks) > blocks

DqSpliceFrontRes(d, blocks) ==
    [blocks |-> SubSeq(d.blocks, 1, blocks),
     phead |-> 0, ptail |-> blocks * DQBLOCK_SIZE]

\* splice_front that cuts one block too far: bhead = splicePoint->next->next.
DqSpliceFrontRestSkipsBlock(d, blocks) ==
    [blocks |-> SubSeq(d.blocks, blocks + 2, Len(d.blocks)),
     phead |-> d.phead + (blocks + 1) * DQBLOCK_SIZE, ptail |-> d.ptail]
DqSpliceFrontRest(d, blocks) ==
    [blocks |-> SubSeq(d.blocks, blocks + 1, Len(d.blocks)),
     phead |-> d.phead + blocks * DQBLOCK_SIZE, ptail |-> d.ptail]

\* merge_front(list): asserts (when not empty) both block-aligned. phead is
\* a uint64_t and wraps below 0 in the code; 2^64 is a multiple of 32, so
\* the alignment tests and ptail - phead read the same on the integer.
DqMergeFrontOk(d, list) ==
    DqEmpty(d) \/ (d.phead % DQBLOCK_SIZE = 0 /\ list.ptail % DQBLOCK_SIZE = 0)

\* merge_front that links the blocks and leaves phead where it was.
DqMergeFrontKeepHead(d, list) ==
    IF DqEmpty(d)
    THEN list
    ELSE [blocks |-> list.blocks \o d.blocks,
          phead |-> d.phead, ptail |-> d.ptail]
DqMergeFront(d, list) ==
    IF DqEmpty(d)
    THEN list
    ELSE [blocks |-> list.blocks \o d.blocks,
          phead |-> d.phead - DqSize(list), ptail |-> d.ptail]

\* steal_front(dstList): what dstList becomes, and what is left.
DqStealFrontDst(d) ==
    [blocks |-> <<d.blocks[1]>>, phead |-> 0, ptail |-> DQBLOCK_SIZE]

DqStealFrontRest(d) ==
    IF Len(d.blocks) = 1
    THEN DqInit
    ELSE [blocks |-> Tail(d.blocks),
          phead |-> d.phead + DQBLOCK_SIZE, ptail |-> d.ptail]

(* ------------------------------- state --------------------------------- *)

VARIABLES
    trackedBump,    \* gs.trackedBump
    trackedEnd,     \* gs.trackedEnd
    sizemapBump,    \* gs.sizemapBump
    sizemapEnd,     \* gs.sizemapEnd
    sizemap,        \* the reserved sizemap bytes: page index -> class
    central,        \* gs.classLists: class -> [freeChunks, bumpStart, bumpEnd]
    chunkSizes,     \* gs.largeHeap.chunkSizes: chunk start -> size
    freeChunkSets,  \* gs.largeHeap.freeChunkSets: size -> set of chunk starts
    threadCaches,   \* gs.threadCaches: tid -> [cacheSize, classLists]
    pc,             \* tid -> where the thread stands in its call
    loc,            \* tid -> the locals of the call in progress
    last,           \* tid -> the last call that returned on this thread
    live,           \* the client's pointers: a bag of [p, n] (returned, not freed)
    nops,           \* calls started since the initial state
    aborted         \* an assertion failed or std::abort() was called

vars == <<trackedBump, trackedEnd, sizemapBump, sizemapEnd, sizemap, central,
          chunkSizes, freeChunkSets, threadCaches, pc, loc, last, live, nops,
          aborted>>

regionVars == <<trackedBump, trackedEnd, sizemapBump, sizemapEnd, sizemap>>
heapVars == <<chunkSizes, freeChunkSets>>

(* -------------------------- region provider ---------------------------- *)

\* The lambda of sysAlloc: the old bump, the new bump, the new mapped end
\* (mmap extends by at least 2 MiB, in multiples of 2 MiB).
allocContiguous(sz, bump, end) ==
    LET nb == bump + sz
        mmapSz == (((nb - end) \div 2097152) + 1) * 2097152
    IN [alloc |-> bump, bump |-> nb,
        end |-> IF nb > end THEN end + mmapSz ELSE end]

\* pages without the 32-page floor: std::max(32ul, minPages) left out.
sysAllocPagesNoFloor(chunkSize) == sizeToPages(chunkSize)
sysAllocPages(chunkSize) == Max(32, sizeToPages(chunkSize))

\* sysAlloc without the write-back of the bumps (gs.trackedBump,
\* gs.sizemapBump keep their old values; the mappings still grow).
sysAllocNoPublish(chunkSize) ==
    LET pages == sysAllocPages(chunkSize)
        allocSize == pages * kPageSize
        tr == allocContiguous(allocSize, trackedBump, trackedEnd)
        sm == allocContiguous(pages, sizemapBump, sizemapEnd)
        base == (tr.alloc - trackedBase) \div kPageSize
        cl == IF isLargeAlloc(chunkSize) THEN 0 ELSE sizeToClass(chunkSize)
    IN [start |-> tr.alloc, end |-> tr.alloc + allocSize,
        trackedBump |-> trackedBump, trackedEnd |-> tr.end,
        sizemapBump |-> sizemapBump, sizemapEnd |-> sm.end,
        sizemap |-> [pg \in 0..(sm.bump - sizemapBase - 1) |->
                        IF cl # 0 /\ pg >= base /\ pg < base + pages THEN cl
                        ELSE IF pg \in DOMAIN sizemap THEN sizemap[pg]
                        ELSE 0]]

\* sysAlloc(chunkSize) under sysAllocLock: the span returned and the region
\* state it leaves.
sysAlloc(chunkSize) ==
    LET pages == sysAllocPages(chunkSize)
        allocSize == pages * kPageSize
        tr == allocContiguous(allocSize, trackedBump, trackedEnd)
        sm == allocContiguous(pages, sizemapBump, sizemapEnd)
        base == (tr.alloc - trackedBase) \div kPageSize
        cl == IF isLargeAlloc(chunkSize) THEN 0 ELSE sizeToClass(chunkSize)
    IN [start |-> tr.alloc, end |-> tr.alloc + allocSize,
        trackedBump |-> tr.bump, trackedEnd |-> tr.end,
        sizemapBump |-> sm.bump, sizemapEnd |-> sm.end,
        sizemap |-> [pg \in 0..(sm.bump - sizemapBase - 1) |->
                        IF cl # 0 /\ pg >= base /\ pg < base + pages THEN cl
                        ELSE IF pg \in DOMAIN sizemap THEN sizemap[pg]
                        ELSE 0]]

\* chunkToClass shifting by one bit too many (64 KiB pages).
chunkToClassShift16(p) ==
    LET pg == (p - trackedBase) \div (2 * kPageSize)
    IN IF pg \in DOMAIN sizemap THEN sizemap[pg] ELSE 0

\* chunkToClass(p): the sizemap byte of p's page (zero-filled where mapped
\* and not yet stamped).
chunkToClass(p) ==
    LET pg == (p - trackedBase) \div kPageSize
    IN IF pg \in DOMAIN sizemap THEN sizemap[pg] ELSE 0

(* ----------------------------- large heap ------------------------------ *)

MapErase(f, k) == [x \in DOMAIN f \ {k} |-> f[x]]
MapPut(f, k, v) == [x \in DOMAIN f \cup {k} |-> IF x = k THEN v ELSE f[x]]

\* The erasure without the test of chunkSet.empty(): a bucket that lost its
\* last chunk stays in the index.
FreeEraseKeepBucket(fs, size, chunk) ==
    [fs EXCEPT ![size] = @ \ {chunk}]

\* chunkSet.erase(cit); if (chunkSet.empty()) freeChunkSets.erase(fit);
FreeErase(fs, size, chunk) ==
    IF fs[size] = {chunk} THEN MapErase(fs, size)
    ELSE [fs EXCEPT ![size] = @ \ {chunk}]

\* The insertion that ends unlocked_dealloc.
FreeInsert(fs, size, chunk) ==
    IF size \in DOMAIN fs THEN [fs EXCEPT ![size] = @ \cup {chunk}]
    ELSE MapPut(fs, size, {chunk})

IsFreeChunk(fs, chunk, size) == size \in DOMAIN fs /\ chunk \in fs[size]

\* The merge with the previous chunk without chunkSizes.erase(it): the
\* entry of the freed chunk stays behind.
MergePrevKeepEntry(p, cs, fs) ==
    LET below == {a \in DOMAIN cs : a < p}
        prevChunk == SetMax(below)
        prevChunkSize == cs[prevChunk]
    IN IF below # {} /\ prevChunk + prevChunkSize = p
          /\ IsFreeChunk(fs, prevChunk, prevChunkSize)
       THEN [chunk |-> prevChunk,
             cs |-> [cs EXCEPT ![prevChunk] = cs[p] + prevChunkSize],
             fs |-> FreeErase(fs, prevChunkSize, prevChunk)]
       ELSE [chunk |-> p, cs |-> cs, fs |-> fs]

\* "Try to merge with previous": the chunk, and the maps, after that stage.
MergePrev(p, cs, fs) ==
    LET below == {a \in DOMAIN cs : a < p}
        prevChunk == SetMax(below)
        prevChunkSize == cs[prevChunk]
    IN IF below # {} /\ prevChunk + prevChunkSize = p
          /\ IsFreeChunk(fs, prevChunk, prevChunkSize)
       THEN [chunk |-> prevChunk,
             cs |-> [MapErase(cs, p) EXCEPT ![prevChunk] = cs[p] + prevChunkSize],
             fs |-> FreeErase(fs, prevChunkSize, prevChunk)]
       ELSE [chunk |-> p, cs |-> cs, fs |-> fs]

\* unlocked_dealloc without its second stage: the next chunk is never taken
\* over.
MergeNextSkipped(chunk, cs, fs) == [chunk |-> chunk, cs |-> cs, fs |-> fs]

\* "Try to merge with next".
MergeNext(chunk, cs, fs) ==
    LET above == {a \in DOMAIN cs : a > chunk}
        nextChunk == SetMin(above)
        nextChunkSize == cs[nextChunk]
    IN IF above # {} /\ chunk + cs[chunk] = nextChunk
          /\ IsFreeChunk(fs, nextChunk, nextChunkSize)
       THEN [chunk |-> chunk,
             cs |-> [MapErase(cs, nextChunk) EXCEPT ![chunk] = cs[chunk] + nextChunkSize],
             fs |-> FreeErase(fs, nextChunkSize, nextChunk)]
       ELSE [chunk |-> chunk, cs |-> cs, fs |-> fs]

\* chunkSizes.lower_bound(chunk) in place of find: the first key at or after
\* the pointer.
FindChunkLowerBound(p, cs) ==
    IF {a \in DOMAIN cs : a >= p} = {} THEN NULL
    ELSE SetMin({a \in DOMAIN cs : a >= p})

\* chunkSizes.find(chunk): the key found, NULL for chunkSizes.end().
FindChunk(p, cs) == IF p \in DOMAIN cs THEN p ELSE NULL

\* unlocked_dealloc(p) on the maps cs, fs; it aborts when p is no key of cs.
unlocked_dealloc_ok(p, cs) == p \in DOMAIN cs

unlocked_dealloc(p, cs, fs) ==
    LET m1 == MergePrev(p, cs, fs)
        m2 == MergeNext(m1.chunk, m1.cs, m1.fs)
    IN [cs |-> m2.cs, fs |-> FreeInsert(m2.fs, m2.cs[m2.chunk], m2.chunk)]

\* upper_bound in place of lower_bound: an exact fit is passed over.
FitKeysUpperBound(chunkSize) == {k \in DOMAIN freeChunkSets : k > chunkSize}

\* freeChunkSets.lower_bound(chunkSize): the keys it may land on.
FitKeys(chunkSize) == {k \in DOMAIN freeChunkSets : k >= chunkSize}

\* LargeHeap::alloc without the remainder: the chunk is recorded and the
\* bytes from start + chunkSize to end are recorded nowhere.
LHCarveDropRest(start, end, chunkSize, cs, fs) ==
    [cs |-> MapPut(cs, start, chunkSize), fs |-> fs]

\* LargeHeap::alloc from [start, end) on: record the chunk, free the rest.
LHCarve(start, end, chunkSize, cs, fs) ==
    LET cs1 == MapPut(cs, start, chunkSize)
        left == start + chunkSize
        remaining == end - left
    IN IF remaining # 0
       THEN unlocked_dealloc(left, MapPut(cs1, left, remaining), fs)
       ELSE [cs |-> cs1, fs |-> fs]

\* The lookup by upper_bound and a step back: the size of the chunk that
\* holds the pointer, also for a pointer inside a chunk.
chunkToSizeOfHolder(chunk) ==
    IF {a \in DOMAIN chunkSizes : a <= chunk} = {} THEN 0
    ELSE chunkSizes[SetMax({a \in DOMAIN chunkSizes : a <= chunk})]

\* LargeHeap::chunkToSize_noassert
chunkToSize_noassert(chunk) ==
    IF chunk \in DOMAIN chunkSizes THEN chunkSizes[chunk] ELSE 0

(* ------------------------------- facade -------------------------------- *)

chunk_size(p) ==
    LET cl == chunkToClass(p)
    IN IF cl # 0 THEN classToSize(cl) ELSE chunkToSize_noassert(p)

valid_chunk(p) == p >= trackedBase /\ p <= trackedBump

\* The rounding without the + 63: chunkSize & (~63ul) rounds down.
RoundDownToLine(chunkSize) == chunkSize - (chunkSize % 64)
\* No rounding at all: the request size goes to the large heap as it is.
RoundNotAtAll(chunkSize) == chunkSize

\* (chunkSize + 63ul) & (~63ul): clear the low six bits of chunkSize + 63.
RoundToLine(chunkSize) == (chunkSize + 63) - ((chunkSize + 63) % 64)

\* What the model keeps of a call that returned: op ("alloc" or "dealloc"),
\* the request size n, the pointer p returned or freed, the class cl the
\* thread cache served or took it under (0: the large heap), the size sz
\* handed to LargeHeap::alloc (for a dealloc: chunk_size(p) at the call),
\* whether the dealloc ran a donation, whether the large alloc called
\* sysAlloc, and the same thread's call before it.
NoBefore == [op |-> "none", p |-> NULL, cl |-> 0, donated |-> FALSE]
NoCall == [op |-> "none", n |-> 0, p |-> NULL, cl |-> 0, sz |-> 0,
           donated |-> FALSE, sys |-> FALSE, before |-> NoBefore]
NoLoc == [n |-> 0, cl |-> 0, start |-> NULL, end |-> NULL]

(* ------------------------- central free lists -------------------------- *)

\* elemsPerFetch with the block size left out: std::max(elemsPerFetch, 2u)
\* alone.
elemsPerFetchNoCeiling(cl) == Max(kFetchTargetSize \div classToSize(cl), 2)
\* The elemsPerFetch __plsalloc_init gives class cl's central list.
elemsPerFetch(cl) ==
    Min(DQBLOCK_SIZE, Max(kFetchTargetSize \div classToSize(cl), 2))

\* The loop one turn short: while (--elems) in place of while (elems--).
MoveBackButOne(src, dst, k) ==
    IF DqDequeueBackNOk(src, k)
    THEN [src |-> DqDequeueBackN(src, k - 1),
          dst |-> DqPushAll(dst, DqBackValues(src, k - 1)), ok |-> TRUE]
    ELSE [src |-> src, dst |-> dst, ok |-> FALSE]
\* for (i < k) dst.push_back(src.dequeue_back()): the two deques afterwards.
MoveBack(src, dst, k) ==
    IF DqDequeueBackNOk(src, k)
    THEN [src |-> DqDequeueBackN(src, k),
          dst |-> DqPushAll(dst, DqBackValues(src, k)), ok |-> TRUE]
    ELSE [src |-> src, dst |-> dst, ok |-> FALSE]

\* for (cur = start; cur < end; cur += chunkSize) dst.push_back(cur)
PushRange(dst, start, end, chunkSize) ==
    LET k == IF end > start THEN (end - start + chunkSize - 1) \div chunkSize ELSE 0
    IN DqPushAll(dst, [i \in 1..k |-> start + (i - 1) * chunkSize])

\* The end of the slice without the look at what the window holds: always
\* elemsPerFetch chunks.
FillEndWhole(start, end, cl) == start + classToSize(cl) * elemsPerFetch(cl)
\* The end of the slice bulkAlloc fills dstList from, computed after unlock.
FillEnd(start, end, cl) ==
    LET chunkSize == classToSize(cl)
        want == chunkSize * elemsPerFetch(cl)
    IN IF end - start > want
       THEN start + want
       ELSE start + chunkSize * ((end - start) \div chunkSize)

\* bulkDealloc(srcList, elems) on class cl's list c: both deques afterwards.
bulkDealloc(c, src, elems) ==
    IF elems >= DQBLOCK_SIZE
    THEN LET blocks == elems \div DQBLOCK_SIZE
             spliced == DqSpliceFrontRes(src, blocks)
         IN IF DqSpliceFrontOk(src, blocks) /\ DqMergeFrontOk(c.freeChunks, spliced)
            THEN [src |-> DqSpliceFrontRest(src, blocks),
                  c |-> [c EXCEPT !.freeChunks = DqMergeFront(@, spliced)],
                  ok |-> TRUE]
            ELSE [src |-> src, c |-> c, ok |-> FALSE]
    ELSE LET m == MoveBack(src, c.freeChunks, elems)
         IN [src |-> m.src, c |-> [c EXCEPT !.freeChunks = m.dst], ok |-> m.ok]

(* ------------------------------ the calls ------------------------------ *)

Idle(t, budget) == ~aborted /\ pc[t] = "idle" /\ nops < budget

Return(t, call) ==
    /\ last' = [last EXCEPT ![t] =
           [call EXCEPT !.before = [op |-> last[t].op, p |-> last[t].p,
                                    cl |-> last[t].cl,
                                    donated |-> last[t].donated]]]
    /\ pc' = [pc EXCEPT ![t] = "idle"]
    /\ loc' = [loc EXCEPT ![t] = NoLoc]

Crash ==
    /\ aborted' = TRUE
    /\ UNCHANGED <<threadCaches, central, pc, loc, last, live>>

\* ThreadCache::alloc without its cacheSize -= classToSize(cl).
TCPopUncounted(t, n, cl, tc) ==
    LET d == tc.classLists[cl]
    IN IF ~DqDequeueBackOk(d)
       THEN Crash
       ELSE /\ threadCaches' = [threadCaches EXCEPT ![t] =
                   [cacheSize |-> tc.cacheSize,
                    classLists |-> [tc.classLists EXCEPT ![cl] = DqDequeueBack(d)]]]
            /\ live' = live (+) SetToBag({[p |-> DqBackValue(d), n |-> n]})
            /\ Return(t, [NoCall EXCEPT !.op = "alloc", !.n = n, !.cl = cl,
                                        !.p = DqBackValue(d)])
            /\ UNCHANGED aborted

\* The end of ThreadCache::alloc: dequeue_back, cacheSize, and do_alloc's
\* return of the chunk to the client.
TCPop(t, n, cl, tc) ==
    LET d == tc.classLists[cl]
    IN IF ~DqDequeueBackOk(d)
       THEN Crash
       ELSE /\ threadCaches' = [threadCaches EXCEPT ![t] =
                   [cacheSize |-> tc.cacheSize - classToSize(cl),
                    classLists |-> [tc.classLists EXCEPT ![cl] = DqDequeueBack(d)]]]
            /\ live' = live (+) SetToBag({[p |-> DqBackValue(d), n |-> n]})
            /\ Return(t, [NoCall EXCEPT !.op = "alloc", !.n = n, !.cl = cl,
                                        !.p = DqBackValue(d)])
            /\ UNCHANGED aborted

\* do_alloc(n), small, the thread's class list not empty.
AllocHit(t, n, budget) ==
    /\ Idle(t, budget)
    /\ ~isLargeAlloc(n)
    /\ ~DqEmpty(threadCaches[t].classLists[sizeToClass(n)])
    /\ nops' = nops + 1
    /\ TCPop(t, n, sizeToClass(n), threadCaches[t])
    /\ UNCHANGED <<regionVars, heapVars, central>>

\* do_alloc(n), small, the thread's class list empty: bulkAlloc up to its
\* unlock.
AllocRefill(t, n, budget) ==
    LET cl == sizeToClass(n)
        c == central[cl]
        chunkSize == classToSize(cl)
        dst == threadCaches[t].classLists[cl]
        recycle == DqSize(c.freeChunks) >= elemsPerFetch(cl)
        fresh == c.bumpStart + chunkSize > c.bumpEnd
        sys == sysAlloc(chunkSize)
        start == IF fresh THEN sys.start ELSE c.bumpStart
        end == IF fresh THEN sys.end ELSE c.bumpEnd
        moved == MoveBack(c.freeChunks, dst, elemsPerFetch(cl))
    IN /\ Idle(t, budget)
       /\ ~isLargeAlloc(n)
       /\ DqEmpty(dst)
       /\ nops' = nops + 1
       /\ IF recycle
          THEN /\ IF elemsPerFetch(cl) >= DQBLOCK_SIZE
                  THEN /\ threadCaches' = [threadCaches EXCEPT
                              ![t].classLists[cl] = DqStealFrontDst(c.freeChunks)]
                       /\ central' = [central EXCEPT
                              ![cl].freeChunks = DqStealFrontRest(c.freeChunks)]
                       /\ UNCHANGED aborted
                  ELSE /\ threadCaches' = [threadCaches EXCEPT
                              ![t].classLists[cl] = moved.dst]
                       /\ central' = [central EXCEPT ![cl].freeChunks = moved.src]
                       /\ aborted' = ~moved.ok
               /\ pc' = [pc EXCEPT ![t] = "pop"]
               /\ loc' = [loc EXCEPT ![t] = [NoLoc EXCEPT !.n = n, !.cl = cl]]
               /\ UNCHANGED regionVars
          ELSE /\ central' = [central EXCEPT ![cl] =
                      [freeChunks |-> c.freeChunks,
                       bumpStart |-> start + chunkSize * elemsPerFetch(cl),
                       bumpEnd |-> end]]
               /\ IF fresh
                  THEN /\ trackedBump' = sys.trackedBump
                       /\ trackedEnd' = sys.trackedEnd
                       /\ sizemapBump' = sys.sizemapBump
                       /\ sizemapEnd' = sys.sizemapEnd
                       /\ sizemap' = sys.sizemap
                  ELSE UNCHANGED regionVars
               /\ pc' = [pc EXCEPT ![t] = "fill"]
               /\ loc' = [loc EXCEPT ![t] =
                      [n |-> n, cl |-> cl, start |-> start, end |-> end]]
               /\ UNCHANGED <<threadCaches, aborted>>
       /\ UNCHANGED <<heapVars, last, live>>

\* bulkAlloc after its unlock (the fill of dstList from the reserved slice),
\* then the rest of ThreadCache::alloc.
AllocFill(t) ==
    LET l == loc[t]
        tc == threadCaches[t]
        filled == PushRange(tc.classLists[l.cl], l.start,
                            FillEnd(l.start, l.end, l.cl), classToSize(l.cl))
    IN /\ ~aborted
       /\ pc[t] = "fill"
       /\ TCPop(t, l.n, l.cl,
                [cacheSize |-> tc.cacheSize + classToSize(l.cl) * DqSize(filled),
                 classLists |-> [tc.classLists EXCEPT ![l.cl] = filled]])
       /\ UNCHANGED <<regionVars, heapVars, central, nops>>

\* The rest of ThreadCache::alloc after a bulkAlloc served from freeChunks.
AllocPop(t) ==
    LET l == loc[t]
        tc == threadCaches[t]
    IN /\ ~aborted
       /\ pc[t] = "pop"
       /\ TCPop(t, l.n, l.cl,
                [tc EXCEPT !.cacheSize =
                    @ + classToSize(l.cl) * DqSize(tc.classLists[l.cl])])
       /\ UNCHANGED <<regionVars, heapVars, central, nops>>

\* do_alloc(n), large: LargeHeap::alloc under the heap's lock. The chunk a
\* bucket gives (chunkSet.begin()) is any of its chunks.
AllocLarge(t, n, budget) ==
    LET sz == RoundToLine(n)
        keys == FitKeys(sz)
        sys == sysAlloc(sz)
    IN /\ Idle(t, budget)
       /\ isLargeAlloc(n)
       /\ nops' = nops + 1
       /\ \E start \in (IF keys = {} THEN {sys.start}
                         ELSE freeChunkSets[SetMin(keys)]) :
            LET end == IF keys = {} THEN sys.end ELSE start + SetMin(keys)
                fs == IF keys = {} THEN freeChunkSets
                      ELSE FreeErase(freeChunkSets, SetMin(keys), start)
                res == LHCarve(start, end, sz, chunkSizes, fs)
            IN /\ chunkSizes' = res.cs
               /\ freeChunkSets' = res.fs
               /\ live' = live (+) SetToBag({[p |-> start, n |-> n]})
               /\ Return(t, [NoCall EXCEPT !.op = "alloc", !.n = n, !.sz = sz,
                                           !.p = start, !.sys = (keys = {})])
       /\ IF keys = {}
          THEN /\ trackedBump' = sys.trackedBump
               /\ trackedEnd' = sys.trackedEnd
               /\ sizemapBump' = sys.sizemapBump
               /\ sizemapEnd' = sys.sizemapEnd
               /\ sizemap' = sys.sizemap
          ELSE UNCHANGED regionVars
       /\ UNCHANGED <<central, threadCaches, aborted>>

\* The classes the donation loop of ThreadCache::dealloc has yet to visit
\* and does not skip.
ToDonate(tc, from) ==
    {c \in DOMAIN tc.classLists : c >= from /\ DqSize(tc.classLists[c]) # 0}

\* do_dealloc(p), p on a small-class page: ThreadCache::dealloc up to the
\* donation loop.
DeallocSmall(t, a, budget) ==
    LET cl == chunkToClass(a.p)
        tc == threadCaches[t]
        size == tc.cacheSize + classToSize(cl)
    IN /\ Idle(t, budget)
       /\ a \in BagToSet(live)
       /\ cl # 0
       /\ nops' = nops + 1
       /\ live' = live (-) SetToBag({a})
       /\ threadCaches' = [threadCaches EXCEPT ![t] =
              [cacheSize |-> size,
               classLists |-> [tc.classLists EXCEPT ![cl] = DqPushBack(@, a.p)]]]
       /\ IF size > kMaxThreadCacheSize
          THEN /\ pc' = [pc EXCEPT ![t] = "donate"]
               /\ loc' = [loc EXCEPT ![t] = [NoLoc EXCEPT !.n = cl, !.cl = 1,
                                                          !.start = a.p]]
               /\ UNCHANGED last
          ELSE Return(t, [NoCall EXCEPT !.op = "dealloc", !.p = a.p, !.cl = cl,
                                        !.sz = classToSize(cl)])
       /\ UNCHANGED <<regionVars, heapVars, central, aborted>>

\* A donation that gives every element of the list.
elemsToDonateAll(elems) == elems
\* size_t elemsToDonate = (elems + 1) / 2.
elemsToDonate(elems) == (elems + 1) \div 2

\* One turn of the donation loop: the next class with a non-empty list gives
\* (elems + 1) / 2 elements to its central list; after the last class the
\* call returns.
Donate(t) ==
    LET l == loc[t]
        tc == threadCaches[t]
        cl == SetMin(ToDonate(tc, l.cl))
        elems == DqSize(tc.classLists[cl])
        r == bulkDealloc(central[cl], tc.classLists[cl], elemsToDonate(elems))
        tc2 == [cacheSize |-> tc.cacheSize - (elems - DqSize(r.src)) * classToSize(cl),
                classLists |-> [tc.classLists EXCEPT ![cl] = r.src]]
    IN /\ ~aborted
       /\ pc[t] = "donate"
       /\ IF ToDonate(tc, l.cl) = {}
          THEN /\ Return(t, [NoCall EXCEPT !.op = "dealloc", !.p = l.start,
                                           !.cl = l.n, !.donated = TRUE,
                                           !.sz = classToSize(l.n)])
               /\ UNCHANGED <<threadCaches, central, aborted>>
          ELSE IF ~r.ok
          THEN /\ aborted' = TRUE
               /\ UNCHANGED <<threadCaches, central, pc, loc, last>>
          ELSE /\ threadCaches' = [threadCaches EXCEPT ![t] = tc2]
               /\ central' = [central EXCEPT ![cl] = r.c]
               /\ IF ToDonate(tc2, cl + 1) = {}
                  THEN Return(t, [NoCall EXCEPT !.op = "dealloc", !.p = l.start,
                                                !.cl = l.n, !.donated = TRUE,
                                                !.sz = classToSize(l.n)])
                  ELSE /\ loc' = [loc EXCEPT ![t].cl = cl + 1]
                       /\ UNCHANGED <<pc, last>>
               /\ UNCHANGED aborted
       /\ UNCHANGED <<regionVars, heapVars, live, nops>>

\* do_dealloc(p), p on a class-0 page: LargeHeap::dealloc under the lock.
DeallocLarge(t, a, budget) ==
    LET res == unlocked_dealloc(a.p, chunkSizes, freeChunkSets)
    IN /\ Idle(t, budget)
       /\ a \in BagToSet(live)
       /\ chunkToClass(a.p) = 0
       /\ nops' = nops + 1
       /\ live' = live (-) SetToBag({a})
       /\ IF unlocked_dealloc_ok(a.p, chunkSizes)
          THEN /\ chunkSizes' = res.cs
               /\ freeChunkSets' = res.fs
               /\ Return(t, [NoCall EXCEPT !.op = "dealloc", !.p = a.p,
                                           !.sz = chunkSizes[a.p]])
               /\ UNCHANGED aborted
          ELSE /\ aborted' = TRUE
               /\ UNCHANGED <<heapVars, pc, loc, last>>
       /\ UNCHANGED <<regionVars, central, threadCaches>>

\* Pointers a client may pass without holding them: a pointer it freed (the
\* chunk start may have been absorbed by a neighbour since), a pointer into
\* the inside of a chunk, the start of a free chunk. All lie in the range
\* valid_chunk accepts and sysAlloc has reserved.
StrayPtrs(t) ==
    {p \in ({a + 64 : a \in DOMAIN chunkSizes}
             \cup {last[t].p, last[t].before.p}
             \cup UNION {freeChunkSets[k] : k \in DOMAIN freeChunkSets}) :
        /\ p >= trackedBase /\ p < trackedBump
        /\ \A a \in BagToSet(live) : a.p # p}

\* chunk_size(p), as malloc_usable_size calls it for a pointer valid_chunk
\* accepted: a read under the heap's lock; nothing but the result changes.
ChunkSizeCall(t, p, budget) ==
    /\ Idle(t, budget)
    /\ p >= trackedBase /\ p < trackedBump
    /\ nops' = nops + 1
    /\ Return(t, [NoCall EXCEPT !.op = "chunk_size", !.p = p,
                                !.cl = chunkToClass(p), !.sz = chunk_size(p)])
    /\ UNCHANGED <<regionVars, heapVars, central, threadCaches, live, aborted>>

\* do_dealloc(p) for a pointer of a class-0 page that the client does not
\* hold: LargeHeap::dealloc under the lock. With p no key of chunkSizes the
\* call prints its diagnostic and aborts (the thread stays at "abort", p in
\* its locals); with p a key it runs on.
DeallocLargeStray(t, p, budget) ==
    LET it == FindChunk(p, chunkSizes)
        res == unlocked_dealloc(it, chunkSizes, freeChunkSets)
    IN /\ Idle(t, budget)
       /\ p >= trackedBase /\ p < trackedBump
       /\ chunkToClass(p) = 0
       /\ nops' = nops + 1
       /\ IF it # NULL
          THEN /\ chunkSizes' = res.cs
               /\ freeChunkSets' = res.fs
               /\ Return(t, [NoCall EXCEPT !.op = "dealloc", !.p = p,
                                           !.sz = chunkSizes[it]])
               /\ UNCHANGED aborted
          ELSE /\ aborted' = TRUE
               /\ pc' = [pc EXCEPT ![t] = "abort"]
               /\ loc' = [loc EXCEPT ![t] = [NoLoc EXCEPT !.start = p]]
               /\ UNCHANGED <<heapVars, last>>
       /\ UNCHANGED <<regionVars, central, threadCaches, live>>

(* ----------------------- blocked deque, on its own --------------------- *)
\* Two BlockedDeque instances under a client that calls every operation,
\* each within its precondition; splice_front, merge_front and steal_front
\* move blocks between the two.

VARIABLES
    dqs,        \* instance (1, 2) -> the deque
    dseq,       \* instance -> the elements the client expects, front to back
    dtrip,      \* the splice_front / merge_front pair under way, if any
    dfailed,    \* an assert of the deque has failed
    dops        \* calls made

dequeVars == <<dqs, dseq, dtrip, dfailed, dops>>

NoTrip == [phase |-> "none", w |-> 0, k |-> 0, orig |-> << >>, phead |-> 0]

\* No deque is used on its own in the runs of the other components.
DequeParked ==
    /\ dqs = <<DqInit, DqInit>>
    /\ dseq = << << >>, << >> >>
    /\ dtrip = NoTrip
    /\ dfailed = FALSE
    /\ dops = 0

Other(w) == 3 - w

\* The value the next push stores: no element is stored twice.
FreshElem == 200 + dops

\* A call on instance w that leaves d there and e as the expected elements,
\* or fails an assert.
DqCall(w, ok, d, e) ==
    /\ dops < MaxDequeOps /\ ~dfailed
    /\ dops' = dops + 1
    /\ dtrip' = NoTrip
    /\ IF ok
       THEN /\ dqs' = [dqs EXCEPT ![w] = d]
            /\ dseq' = [dseq EXCEPT ![w] = e]
            /\ UNCHANGED dfailed
       ELSE /\ dfailed' = TRUE
            /\ UNCHANGED <<dqs, dseq>>

\* A call that moves blocks: d1, e1 for instance w and d2, e2 for the other.
DqCall2(w, ok, d1, e1, d2, e2, trip) ==
    /\ dops < MaxDequeOps /\ ~dfailed
    /\ dops' = dops + 1
    /\ IF ok
       THEN /\ dqs' = [i \in {1, 2} |-> IF i = w THEN d1 ELSE d2]
            /\ dseq' = [i \in {1, 2} |-> IF i = w THEN e1 ELSE e2]
            /\ dtrip' = trip
            /\ UNCHANGED dfailed
       ELSE /\ dfailed' = TRUE
            /\ dtrip' = NoTrip
            /\ UNCHANGED <<dqs, dseq>>

PushFront(w) ==
    DqCall(w, TRUE, DqPushFront(dqs[w], FreshElem), <<FreshElem>> \o dseq[w])

PushBack(w) ==
    DqCall(w, TRUE, DqPushBack(dqs[w], FreshElem), Append(dseq[w], FreshElem))

\* The pops are called on a deque that holds an element.
PopFront(w) ==
    /\ DqSize(dqs[w]) > 0
    /\ DqCall(w, DqPopFrontOk(dqs[w]), DqPopFront(dqs[w]), Tail(dseq[w]))

PopBack(w) ==
    /\ DqSize(dqs[w]) > 0
    /\ DqCall(w, DqPopBackOk(dqs[w]), DqPopBack(dqs[w]),
              SubSeq(dseq[w], 1, Len(dseq[w]) - 1))

DequeueBack(w) ==
    /\ DqSize(dqs[w]) > 0
    /\ DqCall(w, DqDequeueBackOk(dqs[w]), DqDequeueBack(dqs[w]),
              SubSeq(dseq[w], 1, Len(dseq[w]) - 1))

\* splice_front(k) on instance w; the other instance, unused so far, takes
\* the result.
SpliceFront(w, k) ==
    /\ DqSpliceFrontOk(dqs[w], k)
    /\ dqs[Other(w)] = DqInit
    /\ DqCall2(w, TRUE,
               DqSpliceFrontRest(dqs[w], k),
               SubSeq(dseq[w], k * DQBLOCK_SIZE + 1, Len(dseq[w])),
               DqSpliceFrontRes(dqs[w], k),
               SubSeq(dseq[w], 1, k * DQBLOCK_SIZE),
               [phase |-> "spliced", w |-> w, k |-> k, orig |-> dseq[w],
                phead |-> dqs[w].phead])

\* merge_front of the other instance, which is not empty, onto instance w;
\* the client drops the other instance.
MergeFront(w) ==
    /\ ~DqEmpty(dqs[Other(w)])
    /\ DqMergeFrontOk(dqs[w], dqs[Other(w)])
    /\ DqCall2(w, TRUE,
               DqMergeFront(dqs[w], dqs[Other(w)]),
               dseq[Other(w)] \o dseq[w],
               DqInit, << >>,
               IF dtrip.phase = "spliced" /\ dtrip.w = w
               THEN [dtrip EXCEPT !.phase = "merged"] ELSE NoTrip)

\* steal_front from instance w, whose head block is full, to the other
\* instance, which is empty.
StealFront(w) ==
    /\ dqs[w].phead % DQBLOCK_SIZE = 0
    /\ DqSize(dqs[w]) >= DQBLOCK_SIZE
    /\ dqs[Other(w)] = DqInit
    /\ DqCall2(w, TRUE,
               DqStealFrontRest(dqs[w]),
               SubSeq(dseq[w], DQBLOCK_SIZE + 1, Len(dseq[w])),
               DqStealFrontDst(dqs[w]),
               SubSeq(dseq[w], 1, DQBLOCK_SIZE),
               NoTrip)

\* Instance 1 after f push_front and then b push_back calls on the fresh
\* deque, instance 2 fresh.
DequeLoaded(f, b) ==
    LET fronts == IF f = 0 THEN DqInit ELSE DqPushFront(DqInit, 100)
        d == DqPushAll(fronts, [i \in 1..b |-> 100 + i])
    IN /\ dqs = <<d, DqInit>>
       /\ dseq = <<(IF f = 0 THEN << >> ELSE <<100>>)
                    \o [i \in 1..b |-> 100 + i], << >> >>
       /\ dtrip = NoTrip
       /\ dfailed = FALSE
       /\ dops = 0

(* ---------------------------- ticket mutex ----------------------------- *)
\* The lock word is a uint32_t: the high 16 bits count the tickets served,
\* the low 16 bits the tickets given. It is kept as its two halves
\* [hi, lo], 0..65535 each.

TICKET_MASK == 65535

\* ticket_trylock without its test of hi == lo.
UpForGrabsAlways(val) == TRUE
\* hi == lo in ticket_trylock: "this is up for grabs".
UpForGrabs(val) == val.hi = val.lo

\* The word lock() would write had it stored val + 1: the carry out of the
\* low half goes into the high half.
TakeTicketCarry(val) ==
    [hi |-> IF val.lo = TICKET_MASK THEN (val.hi + 1) % (TICKET_MASK + 1)
            ELSE val.hi,
     lo |-> (val.lo + 1) % (TICKET_MASK + 1)]
\* hi | newLo, the word the compare-and-swap of ticket_lock and of
\* ticket_trylock writes over val: newLo = (val + 1) & TICKET_MASK.
TakeTicket(val) == [hi |-> val.hi, lo |-> (val.lo + 1) % (TICKET_MASK + 1)]

\* __sync_fetch_and_add(lock, 1 << 16) on the 32-bit word: the carry out of
\* the high half is lost, the low half stays.
ServeNext(w) == [hi |-> (w.hi + 1) % (TICKET_MASK + 1), lo |-> w.lo]

VARIABLES
    tlock,      \* mutex::tlock, as [hi, lo]
    mpc,        \* thread -> where it stands: "idle", "lock_read", "lock_cas",
                \*           "spin", "try_cas", "cs" (between lock and unlock)
    mval,       \* thread -> val, the word it read last
    mticket,    \* thread -> ticket, the ticket it took last
    morder,     \* the threads that hold or wait, in the order in which their
                \* compare-and-swap succeeded, as a sequence of runs
                \* [from, to] of thread ids. A thread in morder that mpc does
                \* not list spins in ticket_lock with its id as its ticket.
    mpeak,      \* the most threads that held or waited at once so far
    mcalls      \* lock, trylock and unlock calls started

mutexVars == <<tlock, mpc, mval, mticket, morder, mpeak, mcalls>>

\* No thread is at a mutex of its own in the runs of the other components:
\* there a critical section is one step.
MutexParked ==
    /\ tlock = [hi |-> 0, lo |-> 0]
    /\ mpc = << >> /\ mval = << >> /\ mticket = << >>
    /\ morder = << >> /\ mpeak = 0 /\ mcalls = 0

MThreads == DOMAIN mpc

RECURSIVE OrderLen(_)
OrderLen(o) ==
    IF o = << >> THEN 0 ELSE (Head(o).to - Head(o).from + 1) + OrderLen(Tail(o))

Single(t) == [from |-> t, to |-> t]

\* A thread took a ticket (its compare-and-swap succeeded).
Took(t, val, next) ==
    /\ tlock' = TakeTicket(val)
    /\ mticket' = [mticket EXCEPT ![t] = val.lo]
    /\ mpc' = [mpc EXCEPT ![t] = next]
    /\ morder' = Append(morder, Single(t))
    /\ mpeak' = Max(mpeak, OrderLen(morder) + 1)

\* lock(): the first read of the word.
LockCall(t) ==
    /\ mpc[t] = "idle" /\ mcalls < MaxMutexCalls
    /\ mcalls' = mcalls + 1
    /\ mval' = [mval EXCEPT ![t] = tlock]
    /\ mpc' = [mpc EXCEPT ![t] = "lock_cas"]
    /\ UNCHANGED <<tlock, mticket, morder, mpeak>>

\* The compare-and-swap of ticket_lock; on failure the loop reads again.
LockCas(t) ==
    /\ mpc[t] = "lock_cas"
    /\ IF tlock = mval[t]
       THEN Took(t, mval[t], "spin")
       ELSE /\ mpc' = [mpc EXCEPT ![t] = "lock_read"]
            /\ UNCHANGED <<tlock, mticket, morder, mpeak>>
    /\ UNCHANGED <<mval, mcalls>>

LockRead(t) ==
    /\ mpc[t] = "lock_read"
    /\ mval' = [mval EXCEPT ![t] = tlock]
    /\ mpc' = [mpc EXCEPT ![t] = "lock_cas"]
    /\ UNCHANGED <<tlock, mticket, morder, mpeak, mcalls>>

\* The spin loop of ticket_lock ends when the high half shows the ticket.
LockSpin(t) ==
    /\ mpc[t] = "spin"
    /\ tlock.hi = mticket[t]
    /\ mpc' = [mpc EXCEPT ![t] = "cs"]
    /\ UNCHANGED <<tlock, mval, mticket, morder, mpeak, mcalls>>

\* The same step by a thread q that mpc does not list yet: from here on
\* mpc lists it.
LockSpinUnlisted ==
    \E i \in 1..Len(morder) :
        LET iv == morder[i]
            q == tlock.hi
        IN  /\ q \notin MThreads
            /\ iv.from <= q /\ q <= iv.to
            /\ mpc' = [u \in MThreads \cup {q} |->
                          IF u = q THEN "cs" ELSE mpc[u]]
            /\ mval' = [u \in MThreads \cup {q} |->
                           IF u = q THEN [hi |-> 0, lo |-> q] ELSE mval[u]]
            /\ mticket' = [u \in MThreads \cup {q} |->
                              IF u = q THEN q ELSE mticket[u]]
            /\ morder' = SubSeq(morder, 1, i - 1)
                          \o (IF iv.from < q THEN <<[from |-> iv.from, to |-> q - 1]>>
                              ELSE << >>)
                          \o <<Single(q)>>
                          \o (IF q < iv.to THEN <<[from |-> q + 1, to |-> iv.to]>>
                              ELSE << >>)
                          \o SubSeq(morder, i + 1, Len(morder))
            /\ UNCHANGED <<tlock, mpeak, mcalls>>

\* trylock(): the read of the word.
TryCall(t) ==
    /\ mpc[t] = "idle" /\ mcalls < MaxMutexCalls
    /\ mcalls' = mcalls + 1
    /\ mval' = [mval EXCEPT ![t] = tlock]
    /\ mpc' = [mpc EXCEPT ![t] = "try_cas"]
    /\ UNCHANGED <<tlock, mticket, morder, mpeak>>

\* hi == lo && compare-and-swap: the lock is taken, or trylock returns 0.
TryCas(t) ==
    /\ mpc[t] = "try_cas"
    /\ IF UpForGrabs(mval[t]) /\ tlock = mval[t]
       THEN Took(t, mval[t], "cs")
       ELSE /\ mpc' = [mpc EXCEPT ![t] = "idle"]
            /\ UNCHANGED <<tlock, mticket, morder, mpeak>>
    /\ UNCHANGED <<mval, mcalls>>

\* unlock() by the holder.
Unlock(t) ==
    /\ mpc[t] = "cs" /\ mcalls < MaxMutexCalls
    /\ mcalls' = mcalls + 1
    /\ tlock' = ServeNext(tlock)
    /\ mpc' = [mpc EXCEPT ![t] = "idle"]
    /\ morder' = SelectSeq(morder, LAMBDA iv : iv # Single(t))
    /\ UNCHANGED <<mval, mticket, mpeak>>

\* The lock free after v lock/unlock pairs, MaxMutexThreads threads about
\* to use it; v is 0 or brings the counters to their wrap-around.
MutexFree ==
    /\ \E v \in {0, TICKET_MASK - 1, TICKET_MASK} : tlock = [hi |-> v, lo |-> v]
    /\ mpc = [t \in 0..(MaxMutexThreads - 1) |-> "idle"]
    /\ mval = [t \in 0..(MaxMutexThreads - 1) |-> [hi |-> 0, lo |-> 0]]
    /\ mticket = [t \in 0..(MaxMutexThreads - 1) |-> 0]
    /\ morder = << >>
    /\ mpeak = 0
    /\ mcalls = 0

\* The lock after 65,536 threads called lock() one after the other on the
\* fresh lock: thread 0 holds it with ticket 0, threads 1..65535 spin with
\* the tickets 1..65535, the low half is back at 0; one more thread has not
\* called yet.
MutexCrowded ==
    /\ tlock = [hi |-> 0, lo |-> 0]
    /\ mpc = [t \in {0, TICKET_MASK + 1} |-> IF t = 0 THEN "cs" ELSE "idle"]
    /\ mval = [t \in {0, TICKET_MASK + 1} |-> [hi |-> 0, lo |-> 0]]
    /\ mticket = [t \in {0, TICKET_MASK + 1} |-> 0]
    /\ morder = <<Single(0), [from |-> 1, to |-> TICKET_MASK]>>
    /\ mpeak = TICKET_MASK + 1
    /\ mcalls = 0

(* ------------------------------ bootstrap ------------------------------ *)
\* The first calls into the allocator: do_alloc looks at __initialized and
\* calls __plsalloc_init, do_dealloc goes straight to the allocator state.
\* What the calls do with a constructed state is the subject of the actions
\* above; here a call only uses the state.

VARIABLES
    binit,      \* __initialized
    gsm,        \* what of gs is there: [mapped, bumps, lists, heap, caches, lock]
    bmaps,      \* mmap calls made by __plsalloc_init
    bpc,        \* thread -> where it stands
    bheld,      \* thread -> the chunks it holds, each as the value of bmaps
                \*           when do_alloc returned it
    bbroken,    \* a call has used state that is not constructed, or freed a
                \* chunk the state does not know
    bcalls      \* do_alloc and do_dealloc calls started

bootVars == <<binit, gsm, bmaps, bpc, bheld, bbroken, bcalls>>

\* The pages mmap(MAP_FIXED) gives are zero-filled: nothing is constructed.
Unbuilt == [mapped |-> FALSE, bumps |-> FALSE, lists |-> FALSE,
            heap |-> FALSE, caches |-> FALSE, lock |-> FALSE]
Built == [mapped |-> TRUE, bumps |-> TRUE, lists |-> TRUE,
          heap |-> TRUE, caches |-> TRUE, lock |-> TRUE]

\* Bootstrap is over in the runs of the other components.
BootParked ==
    /\ binit = TRUE
    /\ gsm = Built
    /\ bmaps = 1
    /\ bpc = << >>
    /\ bheld = << >>
    /\ bbroken = FALSE
    /\ bcalls = 0

BootThreads == 1..MaxBootThreads

BootStart ==
    /\ binit = FALSE
    /\ gsm = Unbuilt
    /\ bmaps = 0
    /\ bpc = [t \in BootThreads |-> "idle"]
    /\ bheld = [t \in BootThreads |-> {}]
    /\ bbroken = FALSE
    /\ bcalls = 0

\* do_alloc up to its test of __initialized.
DoAllocEnter(t) ==
    /\ bpc[t] = "idle" /\ bcalls < MaxBootCalls
    /\ bcalls' = bcalls + 1
    /\ bpc' = [bpc EXCEPT ![t] = IF binit THEN "alloc" ELSE "init"]
    /\ UNCHANGED <<binit, gsm, bmaps, bheld, bbroken>>

\* __plsalloc_init: if (__initialized) return;
InitCheck(t) ==
    /\ bpc[t] = "init"
    /\ bpc' = [bpc EXCEPT ![t] = IF binit THEN "alloc" ELSE "mmap"]
    /\ UNCHANGED <<binit, gsm, bmaps, bheld, bbroken, bcalls>>

\* mmap(untrackedBase, sz, ..., MAP_FIXED, ...): fresh pages replace what
\* was mapped there.
InitMmap(t) ==
    /\ bpc[t] = "mmap"
    /\ gsm' = [Unbuilt EXCEPT !.mapped = TRUE]
    /\ bmaps' = bmaps + 1
    /\ bpc' = [bpc EXCEPT ![t] = "bumps"]
    /\ UNCHANGED <<binit, bheld, bbroken, bcalls>>

\* One of the construction steps that follow: it writes its part of gs.
InitStep(t, at, next) ==
    /\ bpc[t] = at
    /\ gsm' = [gsm EXCEPT ![at] = TRUE]
    /\ bpc' = [bpc EXCEPT ![t] = next]
    /\ UNCHANGED <<binit, bmaps, bheld, bbroken, bcalls>>

InitBumps(t) == InitStep(t, "bumps", "lists")
InitLists(t) == InitStep(t, "lists", "heap")
InitHeap(t) == InitStep(t, "heap", "caches")
InitCaches(t) == InitStep(t, "caches", "lock")
InitLock(t) == InitStep(t, "lock", "flag")

\* __initialized = true, and back in do_alloc.
InitFlag(t) ==
    /\ bpc[t] = "flag"
    /\ binit' = TRUE
    /\ bpc' = [bpc EXCEPT ![t] = "alloc"]
    /\ UNCHANGED <<gsm, bmaps, bheld, bbroken, bcalls>>

\* The rest of do_alloc: it works on gs and returns a chunk.
DoAllocUse(t) ==
    /\ bpc[t] = "alloc"
    /\ bpc' = [bpc EXCEPT ![t] = "idle"]
    /\ IF gsm = Built
       THEN /\ bheld' = [bheld EXCEPT ![t] = @ \cup {bmaps}]
            /\ UNCHANGED bbroken
       ELSE /\ bbroken' = TRUE
            /\ UNCHANGED bheld
    /\ UNCHANGED <<binit, gsm, bmaps, bcalls>>

\* do_dealloc(p) of a chunk the thread holds: no test of __initialized; it
\* reads the sizemap and gives the chunk to the thread cache or the large
\* heap.
DoDealloc(t) ==
    /\ bpc[t] = "idle" /\ bcalls < MaxBootCalls
    /\ \E g \in bheld[t] :
          /\ bheld' = [bheld EXCEPT ![t] = @ \ {g}]
          /\ bbroken' = (bbroken \/ gsm # Built \/ g # bmaps)
    /\ bcalls' = bcalls + 1
    /\ UNCHANGED <<binit, gsm, bmaps, bpc>>

(* -------------------- region provider, step by step -------------------- *)
\* sysAlloc as the threads of its callers run it, next to realloc and
\* malloc_usable_size on other threads, which call valid_chunk and then
\* chunk_size and take no lock. The region variables, pc, loc, last and nops
\* are the allocator's; the lists, the heap and the caches are left alone.

VARIABLES
    sysAllocLock,   \* gs.sysAllocLock: the thread inside sysAlloc, or 0
    spans           \* the spans sysAlloc has returned: [start, end, n]

sysVars == <<sysAllocLock, spans>>

\* No thread is inside sysAlloc in the runs of the other components.
SysParked == sysAllocLock = 0 /\ spans = {}

\* The chunk sizes sysAlloc is called with: class sizes (the central lists)
\* and line-rounded large sizes (the large heap). 1048640 takes 33 pages,
\* 3000000 more than one 2 MiB mapping.
SysSizes == {64, 16320, 16384, 1048640, 3000000}

\* The pointers realloc and malloc_usable_size are called with.
SysProbes == {trackedBase + 64, trackedBase + 1048576,
              trackedBase + 1048576 + 64}

SysIdle(t) == pc[t] = "idle" /\ nops < MaxSysOps

\* The untouched part of the allocator state.
SysFrame == UNCHANGED <<central, chunkSizes, freeChunkSets, threadCaches,
                        live, aborted>>

\* The class of the small span that holds p, returned or being reserved by
\* a thread that has taken it from the tracked region; 0 when there is none.
SpanClassAt(p) ==
    LET held == {[start |-> loc[w].start, end |-> loc[w].end, n |-> loc[w].n] :
                    w \in {w \in Threads : pc[w] \in {"sizemap", "stamp"}}}
        over == {s \in spans \cup held :
                    s.start <= p /\ p < s.end /\ ~isLargeAlloc(s.n)}
    IN IF over = {} THEN 0 ELSE sizeToClass((CHOOSE s \in over : TRUE).n)

\* scoped_mutex sm(gs.sysAllocLock), after pages and allocSize are computed.
SysEnter(t, chunkSize) ==
    /\ SysIdle(t)
    /\ sysAllocLock = 0
    /\ sysAllocLock' = t
    /\ pc' = [pc EXCEPT ![t] = "grab"]
    /\ loc' = [loc EXCEPT ![t] = [n |-> chunkSize, cl |-> 0,
                                  start |-> NULL, end |-> NULL]]
    /\ nops' = nops + 1
    /\ UNCHANGED <<regionVars, spans, last>>
    /\ SysFrame

\* "Grab tracked memory" and the store to gs.trackedBump with its fence.
SysGrab(t) ==
    /\ pc[t] = "grab"
    /\ LET allocSize == sysAllocPages(loc[t].n) * kPageSize
           tr == allocContiguous(allocSize, trackedBump, trackedEnd)
       IN /\ trackedEnd' = tr.end
          /\ trackedBump' = tr.bump
          /\ loc' = [loc EXCEPT ![t].start = tr.alloc,
                                ![t].end = tr.alloc + allocSize]
    /\ pc' = [pc EXCEPT ![t] = "sizemap"]
    /\ UNCHANGED <<sizemapBump, sizemapEnd, sizemap, sysAllocLock, spans,
                   last, nops>>
    /\ SysFrame

\* "Grab sizemap memory": the bytes reserved read zero (mmap zeroes).
SysSizemap(t) ==
    /\ pc[t] = "sizemap"
    /\ LET sm == allocContiguous(sysAllocPages(loc[t].n), sizemapBump,
                                 sizemapEnd)
       IN /\ sizemapBump' = sm.bump
          /\ sizemapEnd' = sm.end
          /\ sizemap' = [pg \in 0..(sm.bump - sizemapBase - 1) |->
                            IF pg \in DOMAIN sizemap THEN sizemap[pg] ELSE 0]
    /\ pc' = [pc EXCEPT ![t] = "stamp"]
    /\ UNCHANGED <<trackedBump, trackedEnd, sysAllocLock, spans, loc, last,
                   nops>>
    /\ SysFrame

\* The stamping loop of a small request, the return of the span and the
\* unlock of sm's destructor.
SysStamp(t) ==
    /\ pc[t] = "stamp"
    /\ LET pages == sysAllocPages(loc[t].n)
           base == (loc[t].start - trackedBase) \div kPageSize
       IN sizemap' = IF isLargeAlloc(loc[t].n) THEN sizemap
                     ELSE [pg \in DOMAIN sizemap |->
                              IF pg >= base /\ pg < base + pages
                              THEN sizeToClass(loc[t].n) ELSE sizemap[pg]]
    /\ spans' = spans \cup {[start |-> loc[t].start, end |-> loc[t].end,
                             n |-> loc[t].n]}
    /\ sysAllocLock' = 0
    /\ pc' = [pc EXCEPT ![t] = "idle"]
    /\ loc' = [loc EXCEPT ![t] = NoLoc]
    /\ UNCHANGED <<trackedBump, trackedEnd, sizemapBump, sizemapEnd, last,
                   nops>>
    /\ SysFrame

\* realloc or malloc_usable_size: plsalloc::valid_chunk(ptr).
SysValidChunk(t, p) ==
    /\ SysIdle(t)
    /\ pc' = [pc EXCEPT ![t] = IF valid_chunk(p) THEN "valid" ELSE "idle"]
    /\ loc' = [loc EXCEPT ![t] = IF valid_chunk(p)
                                 THEN [NoLoc EXCEPT !.start = p] ELSE NoLoc]
    /\ nops' = nops + 1
    /\ UNCHANGED <<regionVars, sysVars, last>>
    /\ SysFrame

\* plsalloc::chunk_size(ptr) of a pointer that passed valid_chunk: the read
\* of sizemap[page]. last keeps what the read found: the byte (cl), whether
\* it was reserved, and the class of the small span that holds the pointer
\* (span).
SysChunkSize(t) ==
    /\ pc[t] = "valid"
    /\ LET p == loc[t].start
       IN last' = [last EXCEPT ![t] =
                     [op |-> "chunk_size", p |-> p, cl |-> chunkToClass(p),
                      reserved |-> ((p - trackedBase) \div kPageSize)
                                       \in DOMAIN sizemap,
                      span |-> SpanClassAt(p)]]
    /\ pc' = [pc EXCEPT ![t] = "idle"]
    /\ loc' = [loc EXCEPT ![t] = NoLoc]
    /\ UNCHANGED <<regionVars, sysVars, nops>>
    /\ SysFrame

(* --------------------- central free list, on its own ------------------- *)
\* The four methods of CentralFreeList as any caller may use them, with the
\* list's mutex: a call waits for the lock, runs its critical section and
\* unlocks; bulkAlloc fills dstList and bulkDealloc splices srcList outside
\* the lock. The caller-owned deques are the thread caches' class lists; the
\* chunks alloc() returns are the client's (live), the chunks a caller takes
\* off its own deque are not followed further.

VARIABLES
    cfLock,     \* class -> the thread that holds the list's lock, or 0
    cfTouch,    \* the list members (freeChunks, bumpStart, bumpEnd) the last
                \* step read or wrote: [t, cl], or NoTouch
    cfUnlocks   \* thread -> unlocks made in its call in progress

centralVars == <<cfLock, cfTouch, cfUnlocks>>

\* The classes of the lists in the runs of SpecCentral: 32 chunks a fetch
\* with 16384 (class 1) and 5461 (class 3) chunks in a 1 MiB span, and 2 a
\* fetch with 64 chunks in a span (class 255).
CentralClasses == {1, 3, 255}

\* The elems bulkDealloc is called with: below 32, multiples of 32, and
\* above 32 and no multiple of it.
CentralElems == {1, 31, 32, 33, 64}

NoTouch == [t |-> 0, cl |-> 0]

\* No list call is in progress in the runs of the other components.
CentralParked ==
    /\ cfLock = [cl \in {} |-> 0]
    /\ cfTouch = NoTouch
    /\ cfUnlocks = [t \in {} |-> 0]

\* lock.lock() and scoped_mutex sm(lock), once the ticket is served.
LockListNot(t, cl) == cfLock
LockList(t, cl) == [cfLock EXCEPT ![cl] = t]

CfIdle(t) == ~aborted /\ pc[t] = "idle" /\ nops < MaxCentralOps

\* The locals of a list call: the method, the class, bulkDealloc's elems (n),
\* the chunk of dealloc (p), the slice bulkAlloc reserved (start, end), the
\* blocks bulkDealloc spliced, and the sizes of the caller's deque and of
\* freeChunks when the call began its work on them.
CfLoc(op, cl) ==
    [op |-> op, cl |-> cl, n |-> 0, p |-> NULL, start |-> NULL, end |-> NULL,
     spliced |-> DqInit, own0 |-> 0, free0 |-> 0]

\* A thread cache with class cl's deque replaced by d, cacheSize following.
Owned(tc, cl, d) ==
    [cacheSize |-> tc.cacheSize
                   + (DqSize(d) - DqSize(tc.classLists[cl])) * classToSize(cl),
     classLists |-> [tc.classLists EXCEPT ![cl] = d]]

CfCall(t, l) ==
    /\ pc' = [pc EXCEPT ![t] = "wait"]
    /\ loc' = [loc EXCEPT ![t] = l]
    /\ cfUnlocks' = [cfUnlocks EXCEPT ![t] = 0]
    /\ cfTouch' = NoTouch
    /\ nops' = nops + 1
    /\ UNCHANGED <<cfLock, regionVars, heapVars, central, last, aborted>>

\* The return of a list call.
CfReturn(t, l) ==
    /\ pc' = [pc EXCEPT ![t] = "idle"]
    /\ last' = [last EXCEPT ![t] = l]

\* An assertion of the list or of a deque fails: std::abort().
CfCrash(t) ==
    /\ aborted' = TRUE
    /\ cfTouch' = [t |-> t, cl |-> loc[t].cl]
    /\ UNCHANGED <<regionVars, heapVars, central, threadCaches, pc, loc, last,
                   live, nops, cfLock, cfUnlocks>>

\* alloc() and dealloc(p) up to the scoped_mutex.
CfAllocCall(t, cl) ==
    /\ CfIdle(t)
    /\ CfCall(t, CfLoc("alloc", cl))
    /\ UNCHANGED <<threadCaches, live>>

CfDeallocCall(t, a) ==
    /\ CfIdle(t)
    /\ a \in BagToSet(live)
    /\ live' = live (-) SetToBag({a})
    /\ CfCall(t, [CfLoc("dealloc", sizeToClass(a.n)) EXCEPT !.p = a.p])
    /\ UNCHANGED threadCaches

\* bulkAlloc(dstList) up to lock.lock(); the caller's deque is empty().
CfBulkAllocCall(t, cl) ==
    /\ CfIdle(t)
    /\ DqEmpty(threadCaches[t].classLists[cl])
    /\ CfCall(t, CfLoc("bulkAlloc", cl))
    /\ UNCHANGED <<threadCaches, live>>

\* bulkDealloc(srcList, elems) up to lock.lock(): with 32 elements or more
\* the blocks are spliced off srcList first.
CfBulkDeallocCall(t, cl, elems) ==
    LET src == threadCaches[t].classLists[cl]
        blocks == elems \div DQBLOCK_SIZE
        l == [CfLoc("bulkDealloc", cl) EXCEPT !.n = elems,
                                              !.own0 = DqSize(src)]
    IN /\ CfIdle(t)
       /\ elems >= 1 /\ elems <= DqSize(src)
       /\ IF elems < DQBLOCK_SIZE
          THEN /\ CfCall(t, l)
               /\ UNCHANGED threadCaches
          ELSE IF DqSpliceFrontOk(src, blocks)
          THEN /\ CfCall(t, [l EXCEPT !.spliced = DqSpliceFrontRes(src, blocks)])
               /\ threadCaches' = [threadCaches EXCEPT ![t] =
                      Owned(@, cl, DqSpliceFrontRest(src, blocks))]
          ELSE /\ aborted' = TRUE
               /\ cfTouch' = NoTouch
               /\ UNCHANGED <<regionVars, heapVars, central, threadCaches, pc,
                              loc, last, nops, cfLock, cfUnlocks>>
       /\ UNCHANGED live

\* The waiting caller gets the lock.
CfLock(t) ==
    /\ ~aborted
    /\ pc[t] = "wait"
    /\ cfLock[loc[t].cl] = 0
    /\ cfLock' = LockList(t, loc[t].cl)
    /\ pc' = [pc EXCEPT ![t] = "locked"]
    /\ cfTouch' = NoTouch
    /\ UNCHANGED <<regionVars, heapVars, central, threadCaches, loc, last,
                   live, nops, aborted, cfUnlocks>>

\* What a body step does besides its work on the list: the members are
\* touched, and the lock is released once.
CfBody(t, cl) ==
    /\ cfTouch' = [t |-> t, cl |-> cl]
    /\ cfLock' = [cfLock EXCEPT ![cl] = 0]
    /\ cfUnlocks' = [cfUnlocks EXCEPT ![t] = @ + 1]
    /\ UNCHANGED <<heapVars, nops, aborted>>

\* The region state after sysAlloc, or as it is.
CfRegion(fresh, sys) ==
    IF fresh
    THEN /\ trackedBump' = sys.trackedBump
         /\ trackedEnd' = sys.trackedEnd
         /\ sizemapBump' = sys.sizemapBump
         /\ sizemapEnd' = sys.sizemapEnd
         /\ sizemap' = sys.sizemap
    ELSE UNCHANGED regionVars

\* alloc() under the lock, to its return.
CfAllocBody(t) ==
    LET cl == loc[t].cl
        c == central[cl]
        chunkSize == classToSize(cl)
        fresh == c.bumpStart + chunkSize > c.bumpEnd
        sys == sysAlloc(chunkSize)
        start == IF fresh THEN sys.start ELSE c.bumpStart
        end == IF fresh THEN sys.end ELSE c.bumpEnd
        recycled == ~DqEmpty(c.freeChunks)
        res == IF recycled THEN DqBackValue(c.freeChunks) ELSE start
    IN /\ ~aborted
       /\ pc[t] = "locked" /\ loc[t].op = "alloc"
       /\ IF recycled /\ ~DqDequeueBackOk(c.freeChunks)
          THEN CfCrash(t)
          ELSE IF ~recycled /\ start + chunkSize > end
          THEN CfCrash(t)
          ELSE /\ IF recycled
                  THEN /\ central' = [central EXCEPT ![cl].freeChunks =
                                         DqDequeueBack(c.freeChunks)]
                       /\ UNCHANGED regionVars
                  ELSE /\ central' = [central EXCEPT ![cl] =
                              [freeChunks |-> c.freeChunks,
                               bumpStart |-> start + chunkSize,
                               bumpEnd |-> end]]
                       /\ CfRegion(fresh, sys)
               /\ live' = live (+) SetToBag({[p |-> res, n |-> chunkSize]})
               /\ loc' = [loc EXCEPT ![t].p = res]
               /\ CfBody(t, cl)
               /\ CfReturn(t, [loc[t] EXCEPT !.p = res])
               /\ UNCHANGED threadCaches

\* dealloc(p) under the lock, to its return.
CfDeallocBody(t) ==
    LET cl == loc[t].cl
    IN /\ ~aborted
       /\ pc[t] = "locked" /\ loc[t].op = "dealloc"
       /\ central' = [central EXCEPT ![cl].freeChunks =
                         DqPushBack(@, loc[t].p)]
       /\ CfBody(t, cl)
       /\ CfReturn(t, loc[t])
       /\ UNCHANGED <<regionVars, threadCaches, loc, live>>

\* bulkAlloc under the lock: it returns when freeChunks serves it, and goes
\* on to fill dstList when it reserved a slice.
CfBulkAllocBody(t) ==
    LET cl == loc[t].cl
        c == central[cl]
        chunkSize == classToSize(cl)
        dst == threadCaches[t].classLists[cl]
        fresh == c.bumpStart + chunkSize > c.bumpEnd
        sys == sysAlloc(chunkSize)
        start == IF fresh THEN sys.start ELSE c.bumpStart
        end == IF fresh THEN sys.end ELSE c.bumpEnd
        moved == MoveBack(c.freeChunks, dst, elemsPerFetch(cl))
        l == [loc[t] EXCEPT !.free0 = DqSize(c.freeChunks)]
    IN /\ ~aborted
       /\ pc[t] = "locked" /\ loc[t].op = "bulkAlloc"
       /\ IF DqSize(c.freeChunks) >= elemsPerFetch(cl)
          THEN IF elemsPerFetch(cl) >= DQBLOCK_SIZE
               THEN /\ threadCaches' = [threadCaches EXCEPT ![t] =
                           Owned(@, cl, DqStealFrontDst(c.freeChunks))]
                    /\ central' = [central EXCEPT ![cl].freeChunks =
                                      DqStealFrontRest(c.freeChunks)]
                    /\ loc' = [loc EXCEPT ![t] = l]
                    /\ CfBody(t, cl)
                    /\ CfReturn(t, l)
                    /\ UNCHANGED <<regionVars, live>>
               ELSE IF ~moved.ok
               THEN CfCrash(t)
               ELSE /\ threadCaches' = [threadCaches EXCEPT ![t] =
                           Owned(@, cl, moved.dst)]
                    /\ central' = [central EXCEPT ![cl].freeChunks = moved.src]
                    /\ loc' = [loc EXCEPT ![t] = l]
                    /\ CfBody(t, cl)
                    /\ CfReturn(t, l)
                    /\ UNCHANGED <<regionVars, live>>
          ELSE /\ central' = [central EXCEPT ![cl] =
                      [freeChunks |-> c.freeChunks,
                       bumpStart |-> start + chunkSize * elemsPerFetch(cl),
                       bumpEnd |-> end]]
               /\ CfRegion(fresh, sys)
               /\ loc' = [loc EXCEPT ![t] = [l EXCEPT !.start = start,
                                                       !.end = end]]
               /\ pc' = [pc EXCEPT ![t] = "fill"]
               /\ CfBody(t, cl)
               /\ UNCHANGED <<threadCaches, last, live>>

\* bulkAlloc after its unlock: the slice goes to dstList.
CfBulkAllocFill(t) ==
    LET l == loc[t]
        dst == threadCaches[t].classLists[l.cl]
    IN /\ ~aborted
       /\ pc[t] = "fill"
       /\ threadCaches' = [threadCaches EXCEPT ![t] =
              Owned(@, l.cl, PushRange(dst, l.start,
                                       FillEnd(l.start, l.end, l.cl),
                                       classToSize(l.cl)))]
       /\ cfTouch' = NoTouch
       /\ CfReturn(t, loc[t])
       /\ UNCHANGED <<regionVars, heapVars, central, loc, live, nops, aborted,
                      cfLock, cfUnlocks>>

\* bulkDealloc under the lock: merge_front of the spliced blocks, or the
\* loop of push_back(srcList.dequeue_back()).
CfBulkDeallocBody(t) ==
    LET l == loc[t]
        cl == l.cl
        c == central[cl]
        src == threadCaches[t].classLists[cl]
        m == MoveBack(src, c.freeChunks, l.n)
        l2 == [l EXCEPT !.free0 = DqSize(c.freeChunks)]
    IN /\ ~aborted
       /\ pc[t] = "locked" /\ l.op = "bulkDealloc"
       /\ IF l.n >= DQBLOCK_SIZE
          THEN IF ~DqMergeFrontOk(c.freeChunks, l.spliced)
               THEN CfCrash(t)
               ELSE /\ central' = [central EXCEPT ![cl].freeChunks =
                                      DqMergeFront(@, l.spliced)]
                    /\ loc' = [loc EXCEPT ![t] = l2]
                    /\ CfBody(t, cl)
                    /\ CfReturn(t, l2)
                    /\ UNCHANGED <<regionVars, threadCaches, live>>
          ELSE IF ~m.ok
          THEN CfCrash(t)
          ELSE /\ central' = [central EXCEPT ![cl].freeChunks = m.dst]
               /\ threadCaches' = [threadCaches EXCEPT ![t] =
                                      Owned(@, cl, m.src)]
               /\ loc' = [loc EXCEPT ![t] = l2]
               /\ CfBody(t, cl)
               /\ CfReturn(t, l2)
               /\ UNCHANGED <<regionVars, live>>

\* The caller takes every chunk off its deque of class cl (as many
\* dequeue_back calls as it holds chunks) and keeps them.
CallerDrain(t, cl) ==
    LET d == threadCaches[t].classLists[cl]
    IN /\ CfIdle(t)
       /\ DqSize(d) > 0
       /\ DqDequeueBackNOk(d, DqSize(d))
       /\ threadCaches' = [threadCaches EXCEPT ![t] =
              Owned(@, cl, DqDequeueBackN(d, DqSize(d)))]
       /\ cfTouch' = NoTouch
       /\ nops' = nops + 1
       /\ UNCHANGED <<regionVars, heapVars, central, pc, loc, last, live,
                      aborted, cfLock, cfUnlocks>>

\* The state after thread 1 has fetched f times from class cl's first span,
\* handed every chunk to its client, and got the first b of them back on
\* its deque, lowest first.
CentralLoaded(cl, f, b) ==
    LET chunkSize == classToSize(cl)
        K == CentralClasses
    IN /\ trackedBump = IF f = 0 THEN trackedBase ELSE trackedBase + 1048576
       /\ trackedEnd = IF f = 0 THEN trackedBase ELSE trackedBase + 2097152
       /\ sizemapBump = IF f = 0 THEN sizemapBase ELSE sizemapBase + 32
       /\ sizemapEnd = untrackedBase
                       + ((sizeofAllocState + 2 * 1024 * 1024) \div 2097152)
                         * 2097152
       /\ sizemap = IF f = 0 THEN [pg \in {} |-> 0] ELSE [pg \in 0..31 |-> cl]
       /\ central = [k \in K |->
             IF k = cl /\ f > 0
             THEN [freeChunks |-> DqInit,
                   bumpStart |-> trackedBase
                                 + f * elemsPerFetch(cl) * chunkSize,
                   bumpEnd |-> trackedBase + 1048576]
             ELSE [freeChunks |-> DqInit, bumpStart |-> NULL,
                   bumpEnd |-> NULL]]
       /\ chunkSizes = [a \in {} |-> 0]
       /\ freeChunkSets = [k \in {} |-> {}]
       /\ threadCaches = [t \in Threads |->
             IF t = 1
             THEN [cacheSize |-> b * chunkSize,
                   classLists |-> [k \in K |->
                       IF k = cl
                       THEN DqPushAll(DqInit,
                                [i \in 1..b |-> trackedBase + (i - 1) * chunkSize])
                       ELSE DqInit]]
             ELSE [cacheSize |-> 0, classLists |-> [k \in K |-> DqInit]]]
       /\ pc = [t \in Threads |-> "idle"]
       /\ loc = [t \in Threads |-> NoLoc]
       /\ last = [t \in Threads |-> NoCall]
       /\ live = EmptyBag
       /\ nops = 0
       /\ aborted = FALSE
       /\ cfLock = [k \in K |-> 0]
       /\ cfTouch = NoTouch
       /\ cfUnlocks = [t \in Threads |-> 0]

(* ------------------- blocked deque, its block links -------------------- *)
\* The same two BlockedDeque instances with their blocks as heap objects:
\* a deque is [bhead, btail, phead, ptail], a block [prev, next], and the
\* element slots are left out. DequeBlock::alloc() returns memory from
\* malloc and no constructor runs, so a field of a new block that expand
\* does not write holds whatever the memory held; a freed block leaves the
\* heap and a pointer to it dangles.

VARIABLES
    lkq,        \* instance (1, 2) -> [bhead, btail, phead, ptail]
    lkb,        \* address of a live block -> [prev, next]
    lkwild,     \* a call has used a pointer to no live block
    lkops       \* calls made

linkVars == <<lkq, lkb, lkwild, lkops>>

LkInit == [bhead |-> NULL, btail |-> NULL, phead |-> 0, ptail |-> 0]

\* No deque is followed block by block in the runs of the other components.
LinkParked ==
    /\ lkq = <<LkInit, LkInit>>
    /\ lkb = [a \in {} |-> 0]
    /\ lkwild = FALSE
    /\ lkops = 0

\* What an unwritten pointer field may hold: null, or anything else.
Garbage == {NULL, -1}

\* The address DequeBlock::alloc() returns next; the first states use the
\* addresses below 10.
LkFresh == 10 + lkops

\* size(), and the blocks bhead..btail the counters span (one when a drained
\* deque still holds its block).
LkSize(q) == q.ptail - q.phead
LkBlocks(q) ==
    IF q.bhead = NULL THEN 0
    ELSE ((q.ptail - 1) \div DQBLOCK_SIZE) - (q.phead \div DQBLOCK_SIZE) + 1

\* expand<head>() with newBlock = id; g = <<prev, next>> is what the new
\* block's memory holds.
LkExpand(head, q, b, id, g) ==
    IF q.bhead = NULL
    THEN [q |-> [q EXCEPT !.bhead = id, !.btail = id],
          b |-> MapPut(b, id, [prev |-> g[1], next |-> g[2]])]
    ELSE IF head
    THEN [q |-> [q EXCEPT !.bhead = id],
          b |-> MapPut([b EXCEPT ![q.bhead].prev = id], id,
                       [prev |-> g[1], next |-> q.bhead])]
    ELSE [q |-> [q EXCEPT !.btail = id],
          b |-> MapPut([b EXCEPT ![q.btail].next = id], id,
                       [prev |-> q.btail, next |-> g[2]])]

\* shrink<head>(): the edge pointer moves in, the block is freed.
LkShrink(head, q, b) ==
    IF head
    THEN [q |-> [q EXCEPT !.bhead = b[q.bhead].next], b |-> MapErase(b, q.bhead)]
    ELSE [q |-> [q EXCEPT !.btail = b[q.btail].prev], b |-> MapErase(b, q.btail)]

LkReset(q, b) == [q |-> LkInit, b |-> MapErase(b, q.bhead)]

LkPushFront(q, b, id, g) ==
    LET e == IF q.phead % DQBLOCK_SIZE = 0 THEN LkExpand(TRUE, q, b, id, g)
             ELSE [q |-> q, b |-> b]
    IN [q |-> [e.q EXCEPT !.phead = @ - 1], b |-> e.b]

LkPushBack(q, b, id, g) ==
    LET e == IF q.ptail % DQBLOCK_SIZE = 0 THEN LkExpand(FALSE, q, b, id, g)
             ELSE [q |-> q, b |-> b]
    IN [q |-> [e.q EXCEPT !.ptail = @ + 1], b |-> e.b]

LkPopFront(q, b) ==
    LET q1 == [q EXCEPT !.phead = @ + 1]
    IN IF q1.phead = q1.ptail THEN LkReset(q1, b)
       ELSE IF q1.phead % DQBLOCK_SIZE = 0 THEN LkShrink(TRUE, q1, b)
       ELSE [q |-> q1, b |-> b]

LkPopBack(q, b) ==
    LET q1 == [q EXCEPT !.ptail = @ - 1]
    IN IF q1.phead = q1.ptail THEN LkReset(q1, b)
       ELSE IF q1.ptail % DQBLOCK_SIZE = 0 THEN LkShrink(FALSE, q1, b)
       ELSE [q |-> q1, b |-> b]

LkDequeueBack(q, b) ==
    LET q1 == [q EXCEPT !.ptail = @ - 1]
    IN IF q1.ptail % DQBLOCK_SIZE # 0 THEN [q |-> q1, b |-> b]
       ELSE IF q1.bhead = q1.btail THEN LkReset(q1, b)
       ELSE LkShrink(FALSE, q1, b)

\* The block n next-steps after p.
RECURSIVE LkNth(_, _, _)
LkNth(b, p, n) == IF n = 0 THEN p ELSE LkNth(b, b[p].next, n - 1)

\* splice_front(blocks): res takes bhead..splicePoint.
LkSpliceFront(q, b, blocks) ==
    LET splicePoint == LkNth(b, q.bhead, blocks - 1)
        rest == b[splicePoint].next
    IN [res |-> [bhead |-> q.bhead, btail |-> splicePoint,
                 phead |-> 0, ptail |-> blocks * DQBLOCK_SIZE],
        q |-> [q EXCEPT !.bhead = rest, !.phead = @ + blocks * DQBLOCK_SIZE],
        b |-> [b EXCEPT ![splicePoint].next = NULL, ![rest].prev = NULL]]

\* merge_front(list).
LkMergeFront(q, b, list) ==
    IF q.bhead = NULL
    THEN [q |-> list, b |-> b]
    ELSE [q |-> [q EXCEPT !.phead = @ - LkSize(list), !.bhead = list.bhead],
          b |-> [b EXCEPT ![list.btail].next = q.bhead,
                          ![q.bhead].prev = list.btail]]

\* steal_front(dstList).
LkStealFront(q, b) ==
    LET dst == [bhead |-> q.bhead, btail |-> q.bhead,
                phead |-> 0, ptail |-> DQBLOCK_SIZE]
    IN IF q.bhead = q.btail
       THEN [dst |-> dst, q |-> LkInit, b |-> b]
       ELSE [dst |-> dst,
             q |-> [q EXCEPT !.bhead = b[q.bhead].next,
                             !.phead = @ + DQBLOCK_SIZE],
             b |-> [b EXCEPT ![b[q.bhead].next].prev = NULL]]

\* The blocks a walk of n next-steps from p reads, up to the first pointer
\* to no live block.
RECURSIVE LkPath(_, _, _)
LkPath(b, p, n) ==
    IF n <= 0 \/ p \notin DOMAIN b THEN {p}
    ELSE {p} \cup LkPath(b, b[p].next, n - 1)

\* The blocks each operation reads, writes or frees through a pointer.
LkPushFrontUses(q) ==
    IF q.phead % DQBLOCK_SIZE = 0 /\ q.bhead = NULL THEN {} ELSE {q.bhead}
LkPushBackUses(q) ==
    IF q.ptail % DQBLOCK_SIZE = 0 /\ q.bhead = NULL THEN {} ELSE {q.btail}
LkPopFrontUses(q) ==
    IF q.phead + 1 = q.ptail \/ (q.phead + 1) % DQBLOCK_SIZE = 0
    THEN {q.bhead} ELSE {}
LkPopBackUses(q) ==
    IF q.phead = q.ptail - 1 THEN {q.bhead}
    ELSE IF (q.ptail - 1) % DQBLOCK_SIZE = 0 THEN {q.btail}
    ELSE {}
LkDequeueBackUses(q) == {q.btail}
LkSpliceFrontUses(q, b, blocks) == LkPath(b, q.bhead, blocks)
LkMergeFrontUses(q, list) ==
    IF q.bhead = NULL THEN {} ELSE {list.btail, q.bhead}
LkStealFrontUses(q, b) ==
    IF q.bhead = q.btail THEN {} ELSE LkPath(b, q.bhead, 1)

\* A call on instance w that uses the blocks in uses, leaves r.q there and
\* r.b as the heap; the other instance is left alone or becomes o. A use
\* of a pointer to no live block is undefined behaviour: the run is not
\* followed further.
LkCall(w, uses, r, o) ==
    /\ lkops < MaxLinkOps /\ ~lkwild
    /\ lkops' = lkops + 1
    /\ IF uses \subseteq DOMAIN lkb
       THEN /\ lkq' = [i \in {1, 2} |-> IF i = w THEN r.q ELSE o]
            /\ lkb' = r.b
            /\ UNCHANGED lkwild
       ELSE /\ lkwild' = TRUE
            /\ UNCHANGED <<lkq, lkb>>

\* The client's calls, each within the operation's precondition: the pops
\* on a deque that is not empty() (the assert of pop_front and pop_back).
LinkPushFront(w) ==
    \E g \in Garbage \X Garbage :
        LkCall(w, LkPushFrontUses(lkq[w]),
               LkPushFront(lkq[w], lkb, LkFresh, g), lkq[Other(w)])

LinkPushBack(w) ==
    \E g \in Garbage \X Garbage :
        LkCall(w, LkPushBackUses(lkq[w]),
               LkPushBack(lkq[w], lkb, LkFresh, g), lkq[Other(w)])

LinkPopFront(w) ==
    /\ lkq[w].bhead # NULL
    /\ lkq[w].phead + 1 = lkq[w].ptail => lkq[w].bhead = lkq[w].btail
    /\ LkCall(w, LkPopFrontUses(lkq[w]), LkPopFront(lkq[w], lkb),
              lkq[Other(w)])

LinkPopBack(w) ==
    /\ lkq[w].bhead # NULL
    /\ lkq[w].phead = lkq[w].ptail - 1 => lkq[w].bhead = lkq[w].btail
    /\ LkCall(w, LkPopBackUses(lkq[w]), LkPopBack(lkq[w], lkb),
              lkq[Other(w)])

LinkDequeueBack(w) ==
    /\ lkq[w].bhead # NULL
    /\ (lkq[w].ptail - 1) % DQBLOCK_SIZE = 0 /\ lkq[w].bhead = lkq[w].btail
           => LkSize(lkq[w]) = 1
    /\ LkCall(w, LkDequeueBackUses(lkq[w]), LkDequeueBack(lkq[w], lkb),
              lkq[Other(w)])

LinkSpliceFront(w, k) ==
    /\ lkq[w].phead % DQBLOCK_SIZE = 0
    /\ LkBlocks(lkq[w]) > k
    /\ lkq[Other(w)] = LkInit
    /\ LET r == LkSpliceFront(lkq[w], lkb, k)
       IN LkCall(w, LkSpliceFrontUses(lkq[w], lkb, k), r, r.res)

LinkMergeFront(w) ==
    /\ lkq[Other(w)].bhead # NULL
    /\ lkq[w].bhead = NULL
           \/ (lkq[w].phead % DQBLOCK_SIZE = 0
               /\ lkq[Other(w)].ptail % DQBLOCK_SIZE = 0)
    /\ LkCall(w, LkMergeFrontUses(lkq[w], lkq[Other(w)]),
              LkMergeFront(lkq[w], lkb, lkq[Other(w)]), LkInit)

LinkStealFront(w) ==
    /\ lkq[w].phead % DQBLOCK_SIZE = 0
    /\ LkSize(lkq[w]) >= DQBLOCK_SIZE
    /\ lkq[Other(w)] = LkInit
    /\ LET r == LkStealFront(lkq[w], lkb)
       IN LkCall(w, LkStealFrontUses(lkq[w], lkb), r, r.dst)

\* Instance 1 after n push_back calls on the fresh deque (blocks at the
\* addresses 1, 2, ...), instance 2 fresh: the first block's prev and the
\* last block's next have never been written.
LinkLoaded(n, g) ==
    LET nb == (n + DQBLOCK_SIZE - 1) \div DQBLOCK_SIZE
    IN /\ lkq = <<[bhead |-> IF nb = 0 THEN NULL ELSE 1,
                   btail |-> IF nb = 0 THEN NULL ELSE nb,
                   phead |-> 0, ptail |-> n], LkInit>>
       /\ lkb = [a \in 1..nb |->
                   [prev |-> IF a = 1 THEN g[1] ELSE a - 1,
                    next |-> IF a = nb THEN g[2] ELSE a + 1]]
       /\ lkwild = FALSE
       /\ lkops = 0

(* ------------------------- the locks of a call ------------------------- *)
\* do_alloc and do_dealloc as the lock and unlock calls they make, with the
\* bootstrap in front of the first do_alloc. What a call does with the
\* lists and the heap is the subject of the actions above; here the path a
\* call takes (cache hit, refill with or without sysAlloc, donation, large)
\* is the caller's choice. A lock is its ticket word [hi, lo]: hi counts the
\* tickets served, lo the tickets given.

VARIABLES
    lwords,     \* lock -> [hi, lo]
    lflag,      \* __initialized
    lth,        \* thread -> [at, plan, lk, ticket, sticket, cl]
    lcalls      \* do_alloc and do_dealloc calls started

lockVars == <<lwords, lflag, lth, lcalls>>

\* The central lists of two classes, the large heap, and sysAlloc's lock.
OuterLocks == {"list1", "list2", "heap"}
Locks == OuterLocks \cup {"sys"}
ListLock(cl) == IF cl = 1 THEN "list1" ELSE "list2"

LoThreads == 1..MaxLockThreads
LoIdle == [at |-> "idle", plan |-> "none", lk |-> "none", ticket |-> 0,
           sticket |-> 0, cl |-> 0]

\* Bootstrap is over and no call is followed lock by lock in the runs of
\* the other components.
LockParked ==
    /\ lwords = [l \in Locks |-> [hi |-> 0, lo |-> 0]]
    /\ lflag = TRUE
    /\ lth = << >>
    /\ lcalls = 0

\* The paths of do_alloc: ThreadCache::alloc from the cache, bulkAlloc
\* without and with sysAlloc, LargeHeap::alloc without and with sysAlloc.
AllocPlans == {"hit", "refill", "refillsys", "large", "largesys"}
\* The paths of do_dealloc: ThreadCache::dealloc without and with the
\* donation loop, LargeHeap::dealloc.
DeallocPlans == {"push", "donate", "dlarge"}

LoSet(t, r) == lth' = [lth EXCEPT ![t] = r]

\* The lock a plan takes first.
FirstLock(plan, cl) ==
    IF plan \in {"large", "largesys", "dlarge"} THEN "heap"
    ELSE IF plan = "donate" THEN ListLock(1)
    ELSE ListLock(cl)

\* do_alloc up to its test of __initialized.
LoDoAlloc(t, plan, cl) ==
    /\ lth[t].at = "idle" /\ lcalls < MaxLockCalls
    /\ lcalls' = lcalls + 1
    /\ LoSet(t, [LoIdle EXCEPT !.at = IF lflag THEN "route" ELSE "check",
                               !.plan = plan, !.cl = cl])
    /\ UNCHANGED <<lwords, lflag>>

\* __plsalloc_init: if (__initialized) return;
LoInitCheck(t) ==
    /\ lth[t].at = "check"
    /\ LoSet(t, [lth[t] EXCEPT !.at = IF lflag THEN "route" ELSE "mmap"])
    /\ UNCHANGED <<lwords, lflag, lcalls>>

\* mmap(untrackedBase, ..., MAP_FIXED, ...): zero pages replace gs, every
\* lock word with it; the bump pointers set next hold no lock.
LoInitMmap(t) ==
    /\ lth[t].at = "mmap"
    /\ lwords' = [l \in Locks |-> [hi |-> 0, lo |-> 0]]
    /\ LoSet(t, [lth[t] EXCEPT !.at = "lists", !.cl = 1])
    /\ UNCHANGED <<lflag, lcalls>>

\* new (&gs.classLists[cl]) CentralFreeListType(...): mutex() runs
\* ticket_init on the list's lock.
LoInitList(t, top) ==
    /\ lth[t].at = "lists"
    /\ lwords' = [lwords EXCEPT ![ListLock(lth[t].cl)] = [hi |-> 0, lo |-> 0]]
    /\ LoSet(t, IF lth[t].cl < top
                THEN [lth[t] EXCEPT !.cl = @ + 1]
                ELSE [lth[t] EXCEPT !.at = "heap"])
    /\ UNCHANGED <<lflag, lcalls>>

\* new (&gs.largeHeap) LargeHeap(), then the thread caches (no lock).
LoInitHeap(t) ==
    /\ lth[t].at = "heap"
    /\ lwords' = [lwords EXCEPT !["heap"] = [hi |-> 0, lo |-> 0]]
    /\ LoSet(t, [lth[t] EXCEPT !.at = "syslock"])
    /\ UNCHANGED <<lflag, lcalls>>

\* new (&gs.sysAllocLock) mutex().
LoInitSysLock(t) ==
    /\ lth[t].at = "syslock"
    /\ lwords' = [lwords EXCEPT !["sys"] = [hi |-> 0, lo |-> 0]]
    /\ LoSet(t, [lth[t] EXCEPT !.at = "flag"])
    /\ UNCHANGED <<lflag, lcalls>>

\* __initialized = true, and back in do_alloc.
LoInitFlag(t) ==
    /\ lth[t].at = "flag"
    /\ lflag' = TRUE
    /\ LoSet(t, [lth[t] EXCEPT !.at = "route", !.cl = 1])
    /\ UNCHANGED <<lwords, lcalls>>

\* do_alloc past the bootstrap: a cache hit returns, every other path goes
\* for its lock.
LoRoute(t) ==
    /\ lth[t].at = "route"
    /\ LoSet(t, IF lth[t].plan = "hit" THEN LoIdle
                ELSE [lth[t] EXCEPT !.at = "take",
                                    !.lk = FirstLock(lth[t].plan, lth[t].cl)])
    /\ UNCHANGED <<lwords, lflag, lcalls>>

\* do_dealloc: no test of __initialized. A free into the cache returns, a
\* donation goes for the first class's lock, a large free for the heap's.
\* The chunk freed comes from a do_alloc that has returned, so the flag has
\* been set.
LoDoDealloc(t, plan) ==
    /\ lth[t].at = "idle" /\ lcalls < MaxLockCalls
    /\ lflag
    /\ lcalls' = lcalls + 1
    /\ LoSet(t, IF plan = "push" THEN LoIdle
                ELSE [LoIdle EXCEPT !.at = "take", !.plan = plan, !.cl = 1,
                                    !.lk = FirstLock(plan, 1)])
    /\ UNCHANGED <<lwords, lflag>>

\* ticket_lock, its compare-and-swap loop: the thread takes the ticket lo
\* and leaves lo + 1.
LoTake(t) ==
    /\ lth[t].at = "take"
    /\ lwords' = [lwords EXCEPT ![lth[t].lk].lo = @ + 1]
    /\ LoSet(t, [lth[t] EXCEPT !.at = "spin",
                               !.ticket = lwords[lth[t].lk].lo])
    /\ UNCHANGED <<lflag, lcalls>>

\* ticket_lock, its wait: the loop ends when hi is the thread's ticket.
LoSpin(t) ==
    /\ lth[t].at = "spin"
    /\ lwords[lth[t].lk].hi = lth[t].ticket
    /\ LoSet(t, [lth[t] EXCEPT !.at =
                    IF lth[t].plan \in {"refillsys", "largesys"}
                    THEN "systake" ELSE "out"])
    /\ UNCHANGED <<lwords, lflag, lcalls>>

\* sysAlloc inside bulkAlloc or LargeHeap::alloc: scoped_mutex
\* sm(gs.sysAllocLock).
LoSysTake(t) ==
    /\ lth[t].at = "systake"
    /\ lwords' = [lwords EXCEPT !["sys"].lo = @ + 1]
    /\ LoSet(t, [lth[t] EXCEPT !.at = "sysspin", !.sticket = lwords["sys"].lo])
    /\ UNCHANGED <<lflag, lcalls>>

LoSysSpin(t) ==
    /\ lth[t].at = "sysspin"
    /\ lwords["sys"].hi = lth[t].sticket
    /\ LoSet(t, [lth[t] EXCEPT !.at = "sysin"])
    /\ UNCHANGED <<lwords, lflag, lcalls>>

\* sysAlloc returns: ~scoped_mutex.
LoSysUnlock(t) ==
    /\ lth[t].at = "sysin"
    /\ lwords' = [lwords EXCEPT !["sys"].hi = @ + 1]
    /\ LoSet(t, [lth[t] EXCEPT !.at = "out"])
    /\ UNCHANGED <<lflag, lcalls>>

\* The unlock of the list or the heap; the donation loop goes on to the
\* next class's list, every other call returns.
LoUnlock(t, top) ==
    /\ lth[t].at = "out"
    /\ lwords' = [lwords EXCEPT ![lth[t].lk].hi = @ + 1]
    /\ LoSet(t, IF lth[t].plan = "donate" /\ lth[t].cl < top
                THEN [lth[t] EXCEPT !.at = "take", !.cl = @ + 1,
                                    !.lk = ListLock(lth[t].cl + 1)]
                ELSE LoIdle)
    /\ UNCHANGED <<lflag, lcalls>>

\* The steps of thread t's call once it is started.
LoStep(t) ==
    \/ LoInitCheck(t) \/ LoInitMmap(t) \/ LoInitList(t, 2) \/ LoInitHeap(t)
    \/ LoInitSysLock(t) \/ LoInitFlag(t) \/ LoRoute(t) \/ LoTake(t)
    \/ LoSpin(t) \/ LoSysTake(t) \/ LoSysSpin(t) \/ LoSysUnlock(t)
    \/ LoUnlock(t, 2)

\* The process starts with nothing constructed.
LockStart ==
    /\ lwords = [l \in Locks |-> [hi |-> 0, lo |-> 0]]
    /\ lflag = FALSE
    /\ lth = [t \in LoThreads |-> LoIdle]
    /\ lcalls = 0

(* --------------------------- specifications ---------------------------- *)

\* The state __plsalloc_init leaves.
\* K: the classes whose central list and thread-cache deques the state
\* holds (the others are never used in the run).
InitFreshOver(K) ==
    /\ trackedBump = trackedBase
    /\ trackedEnd = trackedBase
    /\ sizemapBump = sizemapBase
    /\ sizemapEnd = untrackedBase
                    + ((sizeofAllocState + 2 * 1024 * 1024) \div 2097152) * 2097152
    /\ sizemap = [pg \in {} |-> 0]
    /\ central = [cl \in K |->
                    [freeChunks |-> DqInit, bumpStart |-> NULL, bumpEnd |-> NULL]]
    /\ chunkSizes = [a \in {} |-> 0]
    /\ freeChunkSets = [k \in {} |-> {}]
    /\ threadCaches = [t \in Threads |->
                         [cacheSize |-> 0, classLists |-> [cl \in K |-> DqInit]]]
    /\ pc = [t \in Threads |-> "idle"]
    /\ loc = [t \in Threads |-> NoLoc]
    /\ last = [t \in Threads |-> NoCall]
    /\ live = EmptyBag
    /\ nops = 0
    /\ aborted = FALSE

InitFresh == InitFreshOver(Classes)

\* A state with a full thread cache, which the program is in after thread 1
\* has called do_alloc(16320) 258 times and do_alloc(1) 256 times (six spans:
\* five of class 255, 64 chunks each and two in the fifth, then one of class
\* 1) and has freed the first 256 chunks of class 255 and then the 256 chunks
\* of class 1 in address order: cacheSize is exactly kMaxThreadCacheSize, so
\* no donation has run, and the next small free of thread 1 starts one.
\* nops counts the calls started from here on.
WarmChunk255(k) == trackedBase + (k \div 64) * 1048576 + (k % 64) * 16320
WarmChunk1(k) == trackedBase + 5 * 1048576 + k * 64

WarmState ==
    /\ trackedBump = trackedBase + 6 * 1048576
    /\ trackedEnd = trackedBase + 6 * 1048576
    /\ sizemapBump = sizemapBase + 6 * 32
    /\ sizemapEnd = untrackedBase
                    + ((sizeofAllocState + 2 * 1024 * 1024) \div 2097152) * 2097152
    /\ sizemap = [pg \in 0..(6 * 32 - 1) |-> IF pg < 5 * 32 THEN 255 ELSE 1]
    /\ central = [cl \in Classes |->
                    IF cl = 255
                    THEN [freeChunks |-> DqInit,
                          bumpStart |-> WarmChunk255(258),
                          bumpEnd |-> trackedBase + 5 * 1048576]
                    ELSE IF cl = 1
                    THEN [freeChunks |-> DqInit,
                          bumpStart |-> WarmChunk1(256),
                          bumpEnd |-> trackedBase + 6 * 1048576]
                    ELSE [freeChunks |-> DqInit, bumpStart |-> NULL,
                          bumpEnd |-> NULL]]
    /\ chunkSizes = [a \in {} |-> 0]
    /\ freeChunkSets = [k \in {} |-> {}]
    /\ threadCaches = [t \in Threads |->
                         IF t = 1
                         THEN [cacheSize |-> 256 * 16320 + 256 * 64,
                               classLists |-> [cl \in Classes |->
                                   IF cl = 255
                                   THEN DqPushAll(DqInit,
                                            [i \in 1..256 |-> WarmChunk255(i - 1)])
                                   ELSE IF cl = 1
                                   THEN DqPushAll(DqInit,
                                            [i \in 1..256 |-> WarmChunk1(i - 1)])
                                   ELSE DqInit]]
                         ELSE [cacheSize |-> 0,
                               classLists |-> [cl \in Classes |-> DqInit]]]
    /\ pc = [t \in Threads |-> "idle"]
    /\ loc = [t \in Threads |-> NoLoc]
    /\ last = [t \in Threads |->
                 IF t = 1
                 THEN [NoCall EXCEPT !.op = "dealloc", !.p = WarmChunk1(255),
                                     !.cl = 1, !.sz = 64,
                                     !.before = [op |-> "dealloc",
                                                 p |-> WarmChunk1(254),
                                                 cl |-> 1, donated |-> FALSE]]
                 ELSE NoCall]
    /\ live = SetToBag({[p |-> WarmChunk255(256), n |-> 16320],
                        [p |-> WarmChunk255(257), n |-> 16320]})
    /\ aborted = FALSE

InitWarm == WarmState /\ nops = 0

\* The variables of the components an allocator run leaves alone.
notAllocVars == <<
    mutexVars, dequeVars, bootVars, sysVars, centralVars, linkVars, lockVars>>
OnlyAlloc ==
    /\ MutexParked /\ DequeParked /\ BootParked /\ SysParked /\ CentralParked
    /\ LinkParked /\ LockParked

Init == (InitFresh \/ InitWarm) /\ OnlyAlloc

\* The allocator right after __plsalloc_init and nothing else.
InitAlloc == InitFresh /\ OnlyAlloc

Next ==
    \/ \E t \in Threads, n \in Sizes : AllocHit(t, n, MaxOps)
       /\ UNCHANGED notAllocVars
    \/ \E t \in Threads, n \in Sizes : AllocRefill(t, n, MaxOps)
       /\ UNCHANGED notAllocVars
    \/ \E t \in Threads : AllocFill(t)
       /\ UNCHANGED notAllocVars
    \/ \E t \in Threads : AllocPop(t)
       /\ UNCHANGED notAllocVars
    \/ \E t \in Threads, n \in Sizes : AllocLarge(t, n, MaxOps)
       /\ UNCHANGED notAllocVars
    \/ \E t \in Threads, a \in BagToSet(live) : DeallocSmall(t, a, MaxOps)
       /\ UNCHANGED notAllocVars
    \/ \E t \in Threads : Donate(t)
       /\ UNCHANGED notAllocVars
    \/ \E t \in Threads, a \in BagToSet(live) : DeallocLarge(t, a, MaxOps)
       /\ UNCHANGED notAllocVars

Spec == Init /\ [][Next]_vars

\* The calls that lead from InitFresh to WarmState, made by thread 1 with
\* the actions above: TLC reaches WarmReached under SpecWarmup.
WarmupCalls == 258 + 256 + 256 + 256

Warmup ==
    \/ /\ nops < 258
       /\ AllocHit(1, 16320, WarmupCalls) \/ AllocRefill(1, 16320, WarmupCalls)
       /\ UNCHANGED notAllocVars
    \/ /\ nops >= 258 /\ nops < 514
       /\ AllocHit(1, 1, WarmupCalls) \/ AllocRefill(1, 1, WarmupCalls)
       /\ UNCHANGED notAllocVars
    \/ AllocFill(1)
       /\ UNCHANGED notAllocVars
    \/ /\ nops >= 514 /\ nops < 770
       /\ DeallocSmall(1, [p |-> WarmChunk255(nops - 514), n |-> 16320],
                       WarmupCalls)
       /\ UNCHANGED notAllocVars
    \/ /\ nops >= 770
       /\ DeallocSmall(1, [p |-> WarmChunk1(nops - 770), n |-> 1], WarmupCalls)
       /\ UNCHANGED notAllocVars

SpecWarmup == InitAlloc /\ [][Warmup]_vars

WarmReached == WarmState /\ nops = WarmupCalls

\* A client that fills thread 1's cache past kMaxThreadCacheSize with bulk
\* refills and then frees one chunk: 126 chunks each of the classes 255 and
\* 254 are allocated and freed, lowest address first (4,104,576 bytes
\* cached, no donation yet), then one chunk of each class 10..109 is
\* allocated, each by a bulk refill of the class's empty deque, and the
\* chunk of class 10 is freed.
OverfillClasses == {254, 255} \cup (10..109)
OverfillCalls == 126 + 126 + 252 + 100 + 1

LowestLive ==
    CHOOSE a \in BagToSet(live) : \A b \in BagToSet(live) : a.p <= b.p

Overfill ==
    \/ /\ nops < 126
       /\ AllocHit(1, classToSize(255), OverfillCalls)
          \/ AllocRefill(1, classToSize(255), OverfillCalls)
       /\ UNCHANGED notAllocVars
    \/ /\ nops >= 126 /\ nops < 252
       /\ AllocHit(1, classToSize(254), OverfillCalls)
          \/ AllocRefill(1, classToSize(254), OverfillCalls)
       /\ UNCHANGED notAllocVars
    \/ AllocFill(1)
       /\ UNCHANGED notAllocVars
    \/ /\ (nops >= 252 /\ nops < 504) \/ nops = 604
       /\ pc[1] = "idle"
       /\ DeallocSmall(1, LowestLive, OverfillCalls)
       /\ UNCHANGED notAllocVars
    \/ /\ nops >= 504 /\ nops < 604
       /\ AllocRefill(1, classToSize(10 + (nops - 504)), OverfillCalls)
       /\ UNCHANGED notAllocVars
    \/ Donate(1)
       /\ UNCHANGED notAllocVars

InitOverfill == InitFreshOver(OverfillClasses) /\ OnlyAlloc

SpecOverfill == InitOverfill /\ [][Overfill]_vars

\* Small requests and frees of two threads, from the state in which thread
\* 1's cache is full: the next small free of thread 1 donates.
NextDonate ==
    \/ \E t \in Threads, n \in SmallSizes : AllocHit(t, n, MaxDonateOps)
       /\ UNCHANGED notAllocVars
    \/ \E t \in Threads, n \in SmallSizes : AllocRefill(t, n, MaxDonateOps)
       /\ UNCHANGED notAllocVars
    \/ \E t \in Threads : AllocFill(t)
       /\ UNCHANGED notAllocVars
    \/ \E t \in Threads : AllocPop(t)
       /\ UNCHANGED notAllocVars
    \/ \E t \in Threads, a \in BagToSet(live) : DeallocSmall(t, a, MaxDonateOps)
       /\ UNCHANGED notAllocVars
    \/ \E t \in Threads : Donate(t)
       /\ UNCHANGED notAllocVars

InitDonate == InitWarm /\ OnlyAlloc

SpecDonate == InitDonate /\ [][NextDonate]_vars

\* A client that makes large requests only, from one thread.
NextLH ==
    \/ \E n \in HeapSizes : AllocLarge(1, n, MaxLargeOps)
       /\ UNCHANGED notAllocVars
    \/ \E a \in BagToSet(live) : DeallocLarge(1, a, MaxLargeOps)
       /\ UNCHANGED notAllocVars

SpecLH == InitAlloc /\ [][NextLH]_vars

\* The client of SpecLH, which also asks for chunk sizes and frees pointers
\* it does not hold.
NextLHQ ==
    \/ \E n \in LargeSizes : AllocLarge(1, n, MaxQueryOps)
       /\ UNCHANGED notAllocVars
    \/ \E a \in BagToSet(live) : DeallocLarge(1, a, MaxQueryOps)
       /\ UNCHANGED notAllocVars
    \/ \E p \in StrayPtrs(1) \cup {a.p : a \in BagToSet(live)} :
          ChunkSizeCall(1, p, MaxQueryOps)
       /\ UNCHANGED notAllocVars
    \/ \E p \in StrayPtrs(1) : DeallocLargeStray(1, p, MaxQueryOps)
       /\ UNCHANGED notAllocVars

SpecLHQ == InitAlloc /\ [][NextLHQ]_vars

\* Threads that lock, try to lock and unlock one mutex, each unlocking only
\* what it holds; the allocator is left alone.
notMutexVars == <<
    vars, dequeVars, bootVars, sysVars, centralVars, linkVars, lockVars>>

NextMutex ==
    \/ \E t \in MThreads : LockCall(t) /\ UNCHANGED notMutexVars
    \/ \E t \in MThreads : LockCas(t) /\ UNCHANGED notMutexVars
    \/ \E t \in MThreads : LockRead(t) /\ UNCHANGED notMutexVars
    \/ \E t \in MThreads : LockSpin(t) /\ UNCHANGED notMutexVars
    \/ LockSpinUnlisted /\ UNCHANGED notMutexVars
    \/ \E t \in MThreads : TryCall(t) /\ UNCHANGED notMutexVars
    \/ \E t \in MThreads : TryCas(t) /\ UNCHANGED notMutexVars
    \/ \E t \in MThreads : Unlock(t) /\ UNCHANGED notMutexVars

InitMutex ==
    /\ InitFresh /\ DequeParked /\ BootParked /\ SysParked /\ CentralParked
    /\ LinkParked /\ LockParked
    /\ MutexFree \/ MutexCrowded

SpecMutex == InitMutex /\ [][NextMutex]_<<vars, mutexVars>>

\* The deque client; the allocator and the mutex are left alone.
notDequeVars == <<
    vars, mutexVars, bootVars, sysVars, centralVars, linkVars, lockVars>>

NextDeque ==
    \/ \E w \in {1, 2} : PushFront(w) /\ UNCHANGED notDequeVars
    \/ \E w \in {1, 2} : PushBack(w) /\ UNCHANGED notDequeVars
    \/ \E w \in {1, 2} : PopFront(w) /\ UNCHANGED notDequeVars
    \/ \E w \in {1, 2} : PopBack(w) /\ UNCHANGED notDequeVars
    \/ \E w \in {1, 2} : DequeueBack(w) /\ UNCHANGED notDequeVars
    \/ \E w \in {1, 2}, k \in 1..2 : SpliceFront(w, k) /\ UNCHANGED notDequeVars
    \/ \E w \in {1, 2} : MergeFront(w) /\ UNCHANGED notDequeVars
    \/ \E w \in {1, 2} : StealFront(w) /\ UNCHANGED notDequeVars

\* The first states: up to three blocks filled from the back, with or
\* without an element pushed at the front before.
InitDeque ==
    /\ InitFresh /\ MutexParked /\ BootParked /\ SysParked /\ CentralParked
    /\ LinkParked /\ LockParked
    /\ \E f \in {0, 1}, b \in {0, 1, 31, 32, 33, 64, 65, 96} : DequeLoaded(f, b)

SpecDeque == InitDeque /\ [][NextDeque]_dequeVars

\* The threads' first calls; gs is not used by anything else yet.
notBootVars == <<
    vars, mutexVars, dequeVars, sysVars, centralVars, linkVars, lockVars>>

NextBoot ==
    \/ \E t \in BootThreads : DoAllocEnter(t) /\ UNCHANGED notBootVars
    \/ \E t \in BootThreads : InitCheck(t) /\ UNCHANGED notBootVars
    \/ \E t \in BootThreads : InitMmap(t) /\ UNCHANGED notBootVars
    \/ \E t \in BootThreads : InitBumps(t) /\ UNCHANGED notBootVars
    \/ \E t \in BootThreads : InitLists(t) /\ UNCHANGED notBootVars
    \/ \E t \in BootThreads : InitHeap(t) /\ UNCHANGED notBootVars
    \/ \E t \in BootThreads : InitCaches(t) /\ UNCHANGED notBootVars
    \/ \E t \in BootThreads : InitLock(t) /\ UNCHANGED notBootVars
    \/ \E t \in BootThreads : InitFlag(t) /\ UNCHANGED notBootVars
    \/ \E t \in BootThreads : DoAllocUse(t) /\ UNCHANGED notBootVars
    \/ \E t \in BootThreads : DoDealloc(t) /\ UNCHANGED notBootVars

InitBoot ==
    /\ InitFresh /\ MutexParked /\ DequeParked /\ SysParked /\ CentralParked
    /\ LinkParked /\ LockParked
    /\ BootStart

SpecBoot == InitBoot /\ [][NextBoot]_bootVars

\* The loop of __plsalloc_init that constructs the central lists, one class
\* a turn, from cl = 1 on; a list is shown with the members its constructor
\* stores (chunkSize, elemsPerFetch).
ConstructList ==
    LET cl == Cardinality(DOMAIN central) + 1
    IN /\ cl < kMaxClasses
       /\ central' = [c \in 1..cl |->
                        IF c < cl THEN central[c]
                        ELSE [chunkSize |-> classToSize(cl),
                              elemsPerFetch |-> elemsPerFetch(cl),
                              freeChunks |-> DqInit,
                              bumpStart |-> NULL, bumpEnd |-> NULL]]
       /\ UNCHANGED <<regionVars, heapVars, threadCaches, pc, loc, last, live,
                      nops, aborted>>

NextLists == ConstructList /\ UNCHANGED notAllocVars

InitNoLists == InitFreshOver({}) /\ OnlyAlloc

SpecLists == InitNoLists /\ [][NextLists]_vars

\* The region provider: sysAlloc calls of two threads and the pointer checks
\* of realloc and malloc_usable_size.
notSysVars == <<
    mutexVars, dequeVars, bootVars, centralVars, linkVars, lockVars>>

NextSys ==
    \/ \E t \in Threads, n \in SysSizes : SysEnter(t, n) /\ UNCHANGED notSysVars
    \/ \E t \in Threads : SysGrab(t) /\ UNCHANGED notSysVars
    \/ \E t \in Threads : SysSizemap(t) /\ UNCHANGED notSysVars
    \/ \E t \in Threads : SysStamp(t) /\ UNCHANGED notSysVars
    \/ \E t \in Threads, p \in SysProbes : SysValidChunk(t, p)
       /\ UNCHANGED notSysVars
    \/ \E t \in Threads : SysChunkSize(t) /\ UNCHANGED notSysVars

InitSys == InitFresh /\ OnlyAlloc

SpecSys == InitSys /\ [][NextSys]_<<vars, sysVars>>

\* The central free lists under the calls of two threads.
notCentralVars == <<
    mutexVars, dequeVars, bootVars, sysVars, linkVars, lockVars>>

NextCentral ==
    \/ \E t \in Threads, cl \in CentralClasses : CfAllocCall(t, cl)
       /\ UNCHANGED notCentralVars
    \/ \E t \in Threads, a \in BagToSet(live) : CfDeallocCall(t, a)
       /\ UNCHANGED notCentralVars
    \/ \E t \in Threads, cl \in CentralClasses : CfBulkAllocCall(t, cl)
       /\ UNCHANGED notCentralVars
    \/ \E t \in Threads, cl \in CentralClasses, elems \in CentralElems :
           CfBulkDeallocCall(t, cl, elems)
       /\ UNCHANGED notCentralVars
    \/ \E t \in Threads : CfLock(t) /\ UNCHANGED notCentralVars
    \/ \E t \in Threads : CfAllocBody(t) /\ UNCHANGED notCentralVars
    \/ \E t \in Threads : CfDeallocBody(t) /\ UNCHANGED notCentralVars
    \/ \E t \in Threads : CfBulkAllocBody(t) /\ UNCHANGED notCentralVars
    \/ \E t \in Threads : CfBulkAllocFill(t) /\ UNCHANGED notCentralVars
    \/ \E t \in Threads : CfBulkDeallocBody(t) /\ UNCHANGED notCentralVars
    \/ \E t \in Threads, cl \in CentralClasses : CallerDrain(t, cl)
       /\ UNCHANGED notCentralVars

\* Fresh lists, and lists of which thread 1 has fetched and got chunks back.
InitCentral ==
    /\ MutexParked /\ DequeParked /\ BootParked /\ SysParked /\ LinkParked
    /\ LockParked
    /\ \E x \in {<<1, 0, 0>>, <<1, 3, 64>>, <<3, 170, 0>>, <<255, 31, 5>>} :
           CentralLoaded(x[1], x[2], x[3])

SpecCentral == InitCentral /\ [][NextCentral]_<<vars, centralVars>>

\* The deque client again, with the blocks' links in the state.
notLinkVars == <<
    vars, mutexVars, dequeVars, bootVars, sysVars, centralVars, lockVars>>

NextLinks ==
    \/ \E w \in {1, 2} : LinkPushFront(w) /\ UNCHANGED notLinkVars
    \/ \E w \in {1, 2} : LinkPushBack(w) /\ UNCHANGED notLinkVars
    \/ \E w \in {1, 2} : LinkPopFront(w) /\ UNCHANGED notLinkVars
    \/ \E w \in {1, 2} : LinkPopBack(w) /\ UNCHANGED notLinkVars
    \/ \E w \in {1, 2} : LinkDequeueBack(w) /\ UNCHANGED notLinkVars
    \/ \E w \in {1, 2}, k \in 1..2 : LinkSpliceFront(w, k)
       /\ UNCHANGED notLinkVars
    \/ \E w \in {1, 2} : LinkMergeFront(w) /\ UNCHANGED notLinkVars
    \/ \E w \in {1, 2} : LinkStealFront(w) /\ UNCHANGED notLinkVars

\* The first states: up to three blocks filled from the back.
InitLinks ==
    /\ InitFresh /\ MutexParked /\ DequeParked /\ BootParked /\ SysParked
    /\ CentralParked /\ LockParked
    /\ \E n \in {0, 1, 32, 33, 64, 65}, g \in Garbage \X Garbage :
           LinkLoaded(n, g)

SpecLinks == InitLinks /\ [][NextLinks]_linkVars

\* The calls of the process's threads from its start, lock by lock, every
\* started call scheduled fairly.
notLockVars ==
    <<vars, mutexVars, dequeVars, bootVars, sysVars, centralVars, linkVars>>

NextLocks ==
    \/ \E t \in LoThreads, plan \in AllocPlans, cl \in {1, 2} :
          LoDoAlloc(t, plan, cl) /\ UNCHANGED notLockVars
    \/ \E t \in LoThreads, plan \in DeallocPlans :
          LoDoDealloc(t, plan) /\ UNCHANGED notLockVars
    \/ \E t \in LoThreads : LoInitCheck(t) /\ UNCHANGED notLockVars
    \/ \E t \in LoThreads : LoInitMmap(t) /\ UNCHANGED notLockVars
    \/ \E t \in LoThreads : LoInitList(t, 2) /\ UNCHANGED notLockVars
    \/ \E t \in LoThreads : LoInitHeap(t) /\ UNCHANGED notLockVars
    \/ \E t \in LoThreads : LoInitSysLock(t) /\ UNCHANGED notLockVars
    \/ \E t \in LoThreads : LoInitFlag(t) /\ UNCHANGED notLockVars
    \/ \E t \in LoThreads : LoRoute(t) /\ UNCHANGED notLockVars
    \/ \E t \in LoThreads : LoTake(t) /\ UNCHANGED notLockVars
    \/ \E t \in LoThreads : LoSpin(t) /\ UNCHANGED notLockVars
    \/ \E t \in LoThreads : LoSysTake(t) /\ UNCHANGED notLockVars
    \/ \E t \in LoThreads : LoSysSpin(t) /\ UNCHANGED notLockVars
    \/ \E t \in LoThreads : LoSysUnlock(t) /\ UNCHANGED notLockVars
    \/ \E t \in LoThreads : LoUnlock(t, 2) /\ UNCHANGED notLockVars

InitLocks ==
    /\ InitFresh /\ MutexParked /\ DequeParked /\ BootParked /\ SysParked
    /\ CentralParked /\ LinkParked
    /\ LockStart

SpecLocks ==
    /\ InitLocks /\ [][NextLocks]_lockVars
    /\ \A t \in LoThreads : WF_lockVars(LoStep(t))

(* ------------------------------ properties ----------------------------- *)

\* The client's live allocations, each [p, n].
LiveSet == BagToSet(live)
\* ceil(n / d), by the remainder and not by the code's n + d - 1.
CeilDiv(n, d) == IF n % d = 0 THEN n \div d ELSE (n \div d) + 1
\* The index of p's 32 KiB page in the tracked region.
PageOf(p) == (p - trackedBase) \div 32768
\* The calls that returned last, one per thread.
LastCalls == {last[t] : t \in Threads}
\* The starts of the large heap's free chunks, by the free index alone.
FreeStarts(fs) == UNION {fs[k] : k \in DOMAIN fs}

C3_AlignedInRange ==
    \A a \in LiveSet :
       /\ a.p % 64 = 0
       /\ trackedBase <= a.p
       /\ a.p + chunk_size(a.p) <= trackedBump

\* A small and a large pointer are live, the large one carved out of the
\* remainder of an earlier large span (it does not start its span).
C3_Witness ==
    /\ \E a \in LiveSet : a.n <= 16320 /\ a.p > trackedBase
    /\ \E a \in LiveSet : a.n >= 16321 /\ a.p % 32768 # 0

\* C4: for a small allocation p = do_alloc(n), n <= 16320, the sizemap byte
\* of p's page is ceil(n / 64) from the return on (also after p was freed
\* again) and chunk_size(p) is 64 times that byte; small chunks that start
\* on the same page have the same class.
C4_SizemapClass ==
    /\ \A a \in LiveSet :
          a.n <= 16320 =>
             /\ PageOf(a.p) \in DOMAIN sizemap
             /\ sizemap[PageOf(a.p)] = CeilDiv(a.n, 64)
             /\ chunk_size(a.p) = 64 * sizemap[PageOf(a.p)]
    /\ \A c \in LastCalls :
          (c.op = "alloc" /\ c.n <= 16320) =>
             /\ PageOf(c.p) \in DOMAIN sizemap
             /\ sizemap[PageOf(c.p)] = CeilDiv(c.n, 64)
             /\ chunk_size(c.p) = 64 * sizemap[PageOf(c.p)]
    /\ \A a, b \in LiveSet :
          (a.n <= 16320 /\ b.n <= 16320 /\ PageOf(a.p) = PageOf(b.p))
             => CeilDiv(a.n, 64) = CeilDiv(b.n, 64)

\* Two live small chunks share a page, a third of another class lies on
\* another span, and a thread's latest do_alloc returned a small pointer
\* that has been freed since.
C4_Witness ==
    /\ \E a, b \in LiveSet :
          a # b /\ a.n <= 16320 /\ b.n <= 16320 /\ PageOf(a.p) = PageOf(b.p)
    /\ \E a, b \in LiveSet :
          a.n <= 16320 /\ b.n <= 16320 /\ CeilDiv(a.n, 64) # CeilDiv(b.n, 64)
    /\ \E c \in LastCalls :
          c.op = "alloc" /\ c.n <= 16320 /\ \A a \in LiveSet : a.p # c.p

C6_LifoReuse ==
    \A c \in LastCalls :
       (/\ c.op = "alloc" /\ c.cl # 0
        /\ c.before.op = "dealloc" /\ c.before.cl = c.cl
        /\ ~c.before.donated)
          => c.p = c.before.p

\* A thread freed a small pointer without a donation and its next call, a
\* do_alloc of another size of the same class, got the pointer back, from a
\* class list that held other chunks beside it.
C6_Witness ==
    \E t \in Threads :
       /\ last[t].op = "alloc" /\ last[t].cl = 1 /\ last[t].n = 1
       /\ last[t].before.op = "dealloc" /\ last[t].before.cl = 1
       /\ ~last[t].before.donated
       /\ last[t].p = last[t].before.p
       /\ DqSize(threadCaches[t].classLists[1]) >= 2
       /\ \E a \in LiveSet : a.p = last[t].p /\ a.n = 1

\* C7: in the large heap no two free chunks are adjacent: for a free chunk
\* [a, a + s) of the free index, a + s is not the start of a free chunk (and
\* so a is not the end of one), also where two spans of sysAlloc meet.
C7_NoAdjacentFree ==
    \A k \in DOMAIN freeChunkSets : \A a \in freeChunkSets[k] :
       /\ a \in DOMAIN chunkSizes /\ chunkSizes[a] = k
       /\ a + k \notin FreeStarts(freeChunkSets)
       /\ \A j \in DOMAIN freeChunkSets : \A b \in freeChunkSets[j] :
             b + j # a

\* Two free chunks exist, apart from one another, and one of them lies
\* across the boundary between the first span and the second.
C7_Witness ==
    /\ Cardinality(FreeStarts(freeChunkSets)) >= 2
    /\ \E a \in FreeStarts(freeChunkSets) :
          /\ a < trackedBase + 1048576
          /\ a + chunkSizes[a] > trackedBase + 1048576
    /\ last[1].op = "dealloc"

\* C8: coalescing. A dealloc of a large chunk B next to free chunks leaves
\* one free chunk over all of them: with the chunk before (A) and the chunk
\* after (C) both free, it starts at A with size |A| + |B| + |C|; with one
\* of them free, it covers the two with the sum of the two sizes. The chunk
\* is recorded once in chunkSizes (no entry is left for an absorbed start)
\* and in freeChunkSets under its size and under no other key.
C8_Coalesce ==
    [][ (nops' = nops + 1 /\ BagCardinality(live') < BagCardinality(live)
         /\ ~aborted')
        => LET b == last'[1].p
               prevs == {a \in FreeStarts(freeChunkSets) :
                            a + chunkSizes[a] = b}
               nexts == {c \in FreeStarts(freeChunkSets) :
                            c = b + chunkSizes[b]}
               start == IF prevs = {} THEN b ELSE SetMin(prevs)
               total == (IF prevs = {} THEN 0 ELSE chunkSizes[SetMin(prevs)])
                        + chunkSizes[b]
                        + (IF nexts = {} THEN 0 ELSE chunkSizes[SetMin(nexts)])
           IN (prevs # {} \/ nexts # {}) =>
                 /\ start \in DOMAIN chunkSizes'
                 /\ chunkSizes'[start] = total
                 /\ \A q \in DOMAIN chunkSizes' :
                       ~(start < q /\ q < start + total)
                 /\ \A k \in DOMAIN freeChunkSets' :
                       (start \in freeChunkSets'[k]) <=> (k = total)
                 /\ total \in DOMAIN freeChunkSets'
                 /\ \A q \in DOMAIN chunkSizes' \ {start} :
                       /\ q \in DOMAIN chunkSizes
                       /\ chunkSizes'[q] = chunkSizes[q]
                       /\ (q \in FreeStarts(freeChunkSets'))
                             <=> (q \in FreeStarts(freeChunkSets)) ]_vars

\* A, B, C were in use side by side at the start of the first span, with the
\* chunk after C in use; A and C were freed, and the dealloc of B that just
\* returned left one free chunk from A to the end of C.
C8_Witness ==
    /\ last[1].op = "dealloc"
    /\ last[1].before.op = "dealloc"
    /\ trackedBase \in FreeStarts(freeChunkSets)
    /\ trackedBase < last[1].p
    /\ last[1].p + last[1].sz < trackedBase + chunkSizes[trackedBase]
    /\ last[1].before.p = last[1].p + last[1].sz
    /\ trackedBase + chunkSizes[trackedBase] \in
          DOMAIN chunkSizes \ FreeStarts(freeChunkSets)

\* C9: LargeHeap::alloc(size) is best fit. With a free chunk of size >= size
\* it takes a chunk of the bucket with the smallest key k >= size and does
\* not call sysAlloc, records chunkSizes[start] = size, and when k > size
\* registers [start + size, start + k) as a free chunk; it obtains a span
\* from sysAlloc only when no free chunk is large enough.
C9_BestFit ==
    [][ (nops' = nops + 1 /\ BagCardinality(live') > BagCardinality(live))
        => LET size == last'[1].sz
               start == last'[1].p
               fit == {k \in DOMAIN freeChunkSets :
                          k >= size /\ freeChunkSets[k] # {}}
               k == SetMin(fit)
           IN /\ chunkSizes'[start] = size
              /\ start \notin FreeStarts(freeChunkSets')
              /\ IF fit # {}
                 THEN /\ start \in freeChunkSets[k]
                      /\ trackedBump' = trackedBump
                      /\ IF k > size
                         THEN /\ (start + size) \in DOMAIN chunkSizes'
                              /\ chunkSizes'[start + size] = k - size
                              /\ (k - size) \in DOMAIN freeChunkSets'
                              /\ (start + size) \in freeChunkSets'[k - size]
                         ELSE (start + size) \notin
                                 (FreeStarts(freeChunkSets')
                                     \ FreeStarts(freeChunkSets))
                 ELSE /\ start = trackedBump
                      /\ trackedBump' >= trackedBump + size ]_vars

\* The alloc that just returned took its chunk from a free chunk and left a
\* remainder, while a larger free chunk that would have fitted as well is
\* still free.
C9_Witness ==
    /\ last[1].op = "alloc" /\ ~last[1].sys
    /\ (last[1].p + last[1].sz) \in FreeStarts(freeChunkSets)
    /\ \E g \in FreeStarts(freeChunkSets) :
          /\ g # last[1].p + last[1].sz
          /\ chunkSizes[g] > last[1].sz + chunkSizes[last[1].p + last[1].sz]

\* C10: valid_chunk(p) is true for no address outside the tracked range
\* sysAlloc has reserved so far, [trackedBase, trackedBump): it is false
\* below trackedBase and false from trackedBump on, also right after the
\* bootstrap, when the range is empty.
ValidChunkProbes ==
    {trackedBase - 1, trackedBase, trackedBump - 1, trackedBump,
     trackedBump + 1, trackedEnd}

C10_ValidChunkInReserved ==
    \A p \in ValidChunkProbes :
       valid_chunk(p) => (trackedBase <= p /\ p < trackedBump)

\* C11: chunk_size(p) for a pointer of a class-0 page that is no key of
\* chunkSizes returns 0 and does not abort; for a key it returns the size
\* recorded; either way chunkSizes and freeChunkSets stay as they are.
C11_ChunkSizeUnknown ==
    [][ (nops' = nops + 1 /\ pc'[1] = "idle" /\ last'[1].op = "chunk_size")
        => /\ last'[1].cl = 0
           /\ last'[1].sz = (IF last'[1].p \in DOMAIN chunkSizes
                             THEN chunkSizes[last'[1].p] ELSE 0)
           /\ ~aborted'
           /\ chunkSizes' = chunkSizes
           /\ freeChunkSets' = freeChunkSets ]_vars

\* The call that just returned 0 asked for a pointer the client had freed
\* and whose chunk start a free neighbour has absorbed; chunks are in use
\* around it.
C11_Witness ==
    /\ last[1].op = "chunk_size" /\ last[1].sz = 0
    /\ last[1].before.op = "dealloc" /\ last[1].before.p = last[1].p
    /\ last[1].p \notin DOMAIN chunkSizes
    /\ \E a \in FreeStarts(freeChunkSets) :
          a < last[1].p /\ last[1].p < a + chunkSizes[a]
    /\ BagCardinality(live) >= 1
    /\ ~aborted

\* C12: LargeHeap::dealloc(p) for a pointer that is no key of chunkSizes
\* (an inside pointer, an absorbed chunk start, never a chunk) aborts, with
\* chunkSizes and freeChunkSets as they were; no such call returns.
C12_StrayFreeAborts ==
    [][ /\ (nops' = nops + 1 /\ pc'[1] = "idle" /\ last'[1].op = "dealloc")
           => last'[1].p \in DOMAIN chunkSizes
        /\ (pc'[1] = "abort" /\ pc[1] # "abort")
           => /\ loc'[1].start \notin DOMAIN chunkSizes
              /\ aborted'
              /\ chunkSizes' = chunkSizes
              /\ freeChunkSets' = freeChunkSets ]_vars

\* The program aborted in a dealloc of a pointer into the inside of a chunk,
\* with free and in-use chunks recorded.
C12_Witness ==
    /\ aborted /\ pc[1] = "abort"
    /\ loc[1].start \notin DOMAIN chunkSizes
    /\ \E a \in DOMAIN chunkSizes :
          a < loc[1].start /\ loc[1].start < a + chunkSizes[a]
    /\ FreeStarts(freeChunkSets) # {}
    /\ BagCardinality(live) >= 1

\* The threads between a successful lock()/trylock() and their unlock().
Holders == {t \in MThreads : mpc[t] = "cs"}

\* C13 (as amended): under any interleaving of lock(), trylock() and
\* unlock(), each unlock issued by the holder, at most one thread is between
\* a successful lock()/trylock() and its unlock(), as long as at most
\* 65,536 threads held or waited for the lock at once.
C13_MutualExclusion ==
    mpeak <= TICKET_MASK + 1 => Cardinality(Holders) <= 1

\* One thread holds the lock, two others wait for it with tickets, and a
\* trylock has failed on the way (three threads have started four calls).
C13_Witness ==
    /\ mpeak = 3
    /\ Cardinality(Holders) = 1
    /\ Cardinality({t \in MThreads : mpc[t] = "spin"}) = 2
    /\ mcalls = 4

\* C13 as stated: at most one thread holds the lock, whatever the number of
\* threads.
C13_AnyNumberOfThreads == Cardinality(Holders) <= 1

\* C14: while fewer than 65,536 threads hold or wait at once, the threads
\* that hold or wait carry consecutive tickets (modulo 65,536) in the order
\* in which their compare-and-swap succeeded, starting at the serving
\* counter, the next-ticket counter is the serving counter plus their number
\* (modulo 65,536), and a thread in the critical section is the first of
\* them: threads enter in ticket-taking order, across wrap-around too.
C14_Fifo ==
    mpeak < TICKET_MASK + 1 =>
        /\ tlock.lo = (tlock.hi + OrderLen(morder)) % (TICKET_MASK + 1)
        /\ \A i \in 1..Len(morder) :
              /\ morder[i].from = morder[i].to
              /\ mpc[morder[i].from] \in {"spin", "cs"}
              /\ mticket[morder[i].from] = (tlock.hi + i - 1) % (TICKET_MASK + 1)
        /\ \A t \in Holders : morder # << >> /\ Head(morder) = Single(t)

\* The thread that took ticket 65535 has unlocked, the thread that took
\* ticket 0 after it is in the critical section and the thread that took
\* ticket 1 still waits: both counters have wrapped around.
C14_Witness ==
    /\ mpeak = 3
    /\ tlock = [hi |-> 0, lo |-> 2]
    /\ \E t, u, w \in MThreads :
          /\ mpc[t] = "idle" /\ mticket[t] = TICKET_MASK
          /\ mpc[u] = "cs" /\ mticket[u] = 0
          /\ mpc[w] = "spin" /\ mticket[w] = 1
          /\ morder = <<Single(u), Single(w)>>

C16_SpliceMergeRoundTrip ==
    LET w == dtrip.w
        n == dtrip.k * DQBLOCK_SIZE
    IN /\ dtrip.phase = "spliced" =>
            /\ dqs[Other(w)].phead = 0
            /\ dqs[Other(w)].ptail = n
            /\ DqElems(dqs[Other(w)]) = SubSeq(dtrip.orig, 1, n)
            /\ dqs[w].phead = dtrip.phead + n
            /\ DqElems(dqs[w]) = SubSeq(dtrip.orig, n + 1, Len(dtrip.orig))
       /\ dtrip.phase = "merged" =>
            /\ DqElems(dqs[w]) = dtrip.orig
            /\ DqSize(dqs[w]) = Len(dtrip.orig)

\* Two blocks were spliced off a deque whose last block is not full, and
\* merged back onto the remainder.
C16_Witness ==
    /\ dtrip.phase = "merged"
    /\ dtrip.k = 2
    /\ Len(dtrip.orig) % DQBLOCK_SIZE # 0
    /\ Len(dtrip.orig) > 2 * DQBLOCK_SIZE

\* The elements of a deque, as a set.
ElemSet(d) ==
    {d.blocks[(((d.phead % DQBLOCK_SIZE) + i) \div DQBLOCK_SIZE) + 1]
             [Slot(d.phead + i)] : i \in 0..(DqSize(d) - 1)}

\* A thread cache that holds class-1 chunks only, 4 MiB + 64 bytes of them
\* after the dealloc that starts the donation, and what bulkDealloc makes of
\* it and of an empty recycled deque.
S4Cache ==
    DqPushAll(DqInit, [i \in 1..((kMaxThreadCacheSize \div classToSize(1)) + 1) |->
                          trackedBase + (i - 1) * classToSize(1)])
S4Donation ==
    bulkDealloc([freeChunks |-> DqInit], S4Cache, (DqSize(S4Cache) + 1) \div 2)

\* C18: a turn of the donation loop takes chunks of one class from the
\* thread cache's deque and adds exactly these chunks to that class's
\* central recycled deque, none lost and none twice, and cacheSize goes down
\* by their number times classToSize(class); from a class-1 cache of
\* 4 MiB + 64 bytes the donation moves at least 2 MiB.
C18_DonationConserves ==
    [][ /\ \A t \in Threads :
              (pc[t] = "donate" /\ threadCaches'[t] # threadCaches[t]) =>
                 \E cl \in Classes :
                    LET src == threadCaches[t].classLists[cl]
                        src2 == threadCaches'[t].classLists[cl]
                        c == central[cl].freeChunks
                        c2 == central'[cl].freeChunks
                        removed == ElemSet(src) \ ElemSet(src2)
                    IN /\ \A o \in Classes \ {cl} :
                             /\ threadCaches'[t].classLists[o]
                                  = threadCaches[t].classLists[o]
                             /\ central'[o] = central[o]
                       /\ removed # {}
                       /\ ElemSet(src2) \subseteq ElemSet(src)
                       /\ ElemSet(c) \subseteq ElemSet(c2)
                       /\ ElemSet(c2) \ ElemSet(c) = removed
                       /\ DqSize(src) - DqSize(src2) = Cardinality(removed)
                       /\ DqSize(c2) - DqSize(c) = Cardinality(removed)
                       /\ Cardinality(ElemSet(c2)) = DqSize(c2)
                       /\ threadCaches'[t].cacheSize
                            = threadCaches[t].cacheSize
                              - Cardinality(removed) * classToSize(cl)
        /\ S4Donation.ok
        /\ (DqSize(S4Cache) - DqSize(S4Donation.src)) * classToSize(1)
             >= kMaxThreadCacheSize \div 2
        /\ DqSize(S4Donation.c.freeChunks)
             = DqSize(S4Cache) - DqSize(S4Donation.src) ]_vars

\* A dealloc that donated has returned: the thread's cache is at or below
\* 4 MiB again and the central lists of both classes hold recycled chunks.
C18_Witness ==
    \E t \in Threads :
        /\ pc[t] = "idle"
        /\ last[t].op = "dealloc" /\ last[t].donated
        /\ threadCaches[t].cacheSize <= kMaxThreadCacheSize
        /\ \A cl \in Classes : DqSize(central[cl].freeChunks) >= DQBLOCK_SIZE

\* C17: when a dealloc that ran the donation pass returns, cacheSize is at
\* most 4 MiB + classToSize(largest class that took part), whatever state
\* the thread cache was in; no class is larger than kMaxClasses - 1.
C17_DonationBound ==
    \A t \in Threads :
        (pc[t] = "idle" /\ last[t].op = "dealloc" /\ last[t].donated) =>
            threadCaches[t].cacheSize
                <= kMaxThreadCacheSize + classToSize(kMaxClasses - 1)

\* C19: the bootstrap body runs at most once: whatever the interleaving of
\* the threads' first do_alloc calls, __plsalloc_init maps the untracked
\* region once.
C19_BootstrapOnce == bmaps <= 1

\* C20: a call that has seen __initialized false works on the allocator
\* state only after bootstrap, so that no call uses state that is not
\* constructed, and __initialized is true only when every component is
\* constructed.
C20_InitBeforeUse ==
    /\ binit => gsm = Built
    /\ \A t \in DOMAIN bpc : bpc[t] = "alloc" => gsm = Built
    /\ ~bbroken

\* C21: a thread that saw valid_chunk(p) true for a pointer p inside a small
\* span, returned or still being reserved, reads a sizemap byte that is
\* reserved and holds the span's class.
C21_StampBeforePublish ==
    \A t \in Threads :
        (last[t].op = "chunk_size" /\ last[t].span # 0)
            => (last[t].reserved /\ last[t].cl = last[t].span)

C23_ListParameters ==
    \A c \in DOMAIN central :
        LET l == central[c]
        IN /\ l.chunkSize = 64 * c
           /\ l.elemsPerFetch >= 2 /\ l.elemsPerFetch <= 32
           /\ l.elemsPerFetch < 32
                  => (l.elemsPerFetch + 1) * l.chunkSize > 32 * 1024
           /\ l.elemsPerFetch > 2
                  => l.elemsPerFetch * l.chunkSize <= 32 * 1024

\* All 255 lists are constructed; class 17 (1088-byte chunks, 30.1 of them
\* in 32 KiB) fetches 30, class 255 fetches 2 and class 16 fetches 32.
C23_Witness ==
    /\ DOMAIN central = 1..255
    /\ central[17].elemsPerFetch = 30
    /\ central[16].elemsPerFetch = 32
    /\ central[255].elemsPerFetch = 2
    /\ central[255].chunkSize = 16320

\* C23 as stated: elemsPerFetch = clamp(ceil(32 KiB / chunkSize), 2, 32).
C23_CeilingFetch ==
    \A c \in DOMAIN central :
        /\ central[c].chunkSize = 64 * c
        /\ central[c].elemsPerFetch
               = Min(32, Max(2, CeilDiv(32 * 1024, central[c].chunkSize)))

\* C24: bulkAlloc(dst) with dst empty: (1) with elemsPerFetch >= 32 and that
\* many chunks in freeChunks it moves the 32 front elements of freeChunks to
\* dst; (2) else with elemsPerFetch chunks in freeChunks it moves
\* elemsPerFetch elements from the back; (3) else it leaves freeChunks as it
\* is and gives dst 1..elemsPerFetch fresh chunks, consecutive multiples of
\* chunkSize from the start of the slice it reserved (bumpStart before the
\* advance, after a sysAlloc the new span's start), none past bumpEnd. dst
\* is not empty when the call returns.
C24_BulkAllocCases ==
    [][\A t \in Threads :
        LET cl == loc[t].cl
            epf == elemsPerFetch(cl)
            F == DqElems(central[cl].freeChunks)
            F2 == DqElems(central'[cl].freeChunks)
            D2 == DqElems(threadCaches'[t].classLists[cl])
            size == 64 * cl
        IN /\ (pc[t] = "locked" /\ pc'[t] # "locked"
                                /\ loc[t].op = "bulkAlloc")
               => /\ (Len(F) >= epf /\ epf >= 32)
                       => /\ D2 = SubSeq(F, 1, 32)
                          /\ F2 = SubSeq(F, 33, Len(F))
                          /\ pc'[t] = "idle"
                  /\ (Len(F) >= epf /\ epf < 32)
                       => /\ D2 = [i \in 1..epf |-> F[Len(F) - i + 1]]
                          /\ F2 = SubSeq(F, 1, Len(F) - epf)
                          /\ pc'[t] = "idle"
                  /\ Len(F) < epf
                       => /\ central'[cl].freeChunks = central[cl].freeChunks
                          /\ pc'[t] = "fill"
                          /\ loc'[t].start \in {central[cl].bumpStart,
                                                 trackedBump}
                          /\ loc'[t].end = central'[cl].bumpEnd
           /\ (pc[t] = "fill" /\ pc'[t] = "idle")
               => /\ Len(D2) >= 1 /\ Len(D2) <= epf
                  /\ \A i \in 1..Len(D2) :
                        /\ D2[i] = loc[t].start + (i - 1) * size
                        /\ D2[i] + size <= loc[t].end
                  /\ central' = central
           /\ (pc[t] # "idle" /\ pc'[t] = "idle" /\ loc[t].op = "bulkAlloc")
               => /\ ~DqEmpty(threadCaches'[t].classLists[cl])
                  /\ DqSize(threadCaches'[t].classLists[cl]) >= 1
      ]_<<vars, centralVars>>

\* Thread 2's bulkAlloc found 32 chunks or more on class 1's freeChunks and
\* came back with the front block.
C24_Witness ==
    /\ last[2].op = "bulkAlloc" /\ last[2].cl = 1 /\ last[2].free0 >= 32
    /\ pc[2] = "idle"
    /\ DqSize(threadCaches[2].classLists[1]) = 32

\* C25: while a central list's lock is free, its bumpStart is not past its
\* bumpEnd and lies a multiple of chunkSize from the start of its span (the
\* 32 pages that end at bumpEnd).
C25_BumpWithinWindow ==
    \A cl \in DOMAIN cfLock :
        (cfLock[cl] = 0 /\ central[cl].bumpEnd # NULL)
            => /\ central[cl].bumpStart <= central[cl].bumpEnd
               /\ (central[cl].bumpStart
                      - (central[cl].bumpEnd - 32 * 32 * 1024)) % (64 * cl) = 0

\* C26 (as amended): bulkDealloc(src, n) that returns has moved m elements
\* from src to freeChunks, m = n when n < 32 (the back n of src, last first,
\* to the back of freeChunks) and m = 32 * (n div 32) when n >= 32 (the front
\* blocks of src, to the front of freeChunks): src holds m fewer and
\* freeChunks m more.
C26_BulkDeallocMoves ==
    [][\A t \in Threads :
        (pc[t] = "locked" /\ pc'[t] = "idle" /\ loc[t].op = "bulkDealloc")
        => LET cl == loc[t].cl
               n == loc[t].n
               m == IF n < 32 THEN n ELSE 32 * (n \div 32)
               S == DqElems(threadCaches[t].classLists[cl])
               S2 == DqElems(threadCaches'[t].classLists[cl])
               F == DqElems(central[cl].freeChunks)
               F2 == DqElems(central'[cl].freeChunks)
           IN /\ Len(S2) = loc[t].own0 - m
              /\ Len(F2) = Len(F) + m
              /\ n < 32 => /\ S2 = SubSeq(S, 1, Len(S) - n)
                           /\ F2 = F \o [i \in 1..n |-> S[Len(S) - i + 1]]
              /\ n >= 32 => /\ S2 = S
                            /\ F2 = DqElems(loc[t].spliced) \o F
                            /\ Len(DqElems(loc[t].spliced)) = m
      ]_<<vars, centralVars>>

\* bulkDealloc(src, 33) on a deque of 64 has returned: 32 chunks went over.
C26_Witness ==
    /\ pc[1] = "idle"
    /\ last[1].op = "bulkDealloc" /\ last[1].n = 33 /\ last[1].own0 = 64
    /\ DqSize(threadCaches[1].classLists[1]) = 32
    /\ DqSize(central[1].freeChunks) >= 32

\* C26 as stated: src holds n fewer elements and freeChunks n more.
C26_ReturnsN ==
    [][\A t \in Threads :
        (pc[t] = "locked" /\ pc'[t] = "idle" /\ loc[t].op = "bulkDealloc")
        => /\ DqSize(threadCaches'[t].classLists[loc[t].cl])
                 = loc[t].own0 - loc[t].n
           /\ DqSize(central'[loc[t].cl].freeChunks)
                 = DqSize(central[loc[t].cl].freeChunks) + loc[t].n
      ]_<<vars, centralVars>>

\* C27: a step that reads or writes a list's freeChunks, bumpStart or
\* bumpEnd is made by the thread that holds the list's lock; outside the
\* lock a call only works on the caller's own deque (the splice of
\* bulkDealloc, the fill of bulkAlloc); a call that returns has released
\* the lock once and holds no lock.
C27_ListUnderLock ==
    [][/\ cfTouch'.t # 0 => cfLock[cfTouch'.cl] = cfTouch'.t
       /\ \A cl \in DOMAIN central :
             central'[cl] # central[cl]
                 => /\ cfLock[cl] # 0
                    /\ cfTouch' = [t |-> cfLock[cl], cl |-> cl]
       /\ \A t \in Threads :
             /\ (pc[t] # "idle" /\ pc'[t] = "idle")
                    => /\ cfUnlocks'[t] = 1
                       /\ \A cl \in DOMAIN cfLock : cfLock'[cl] # t
             /\ threadCaches'[t] # threadCaches[t]
                    => \A u \in Threads \ {t} : pc'[u] = pc[u]
      ]_<<vars, centralVars>>

\* Thread 1 fills its deque from the slice it reserved while thread 2 is in
\* the critical section of the same list.
C27_Witness ==
    /\ pc[1] = "fill" /\ pc[2] = "locked"
    /\ loc[1].cl = loc[2].cl
    /\ cfLock[loc[1].cl] = 2
    /\ cfUnlocks[1] = 1 /\ cfUnlocks[2] = 0

\* The bytes a thread cache's deques hold: the sum over the classes in S of
\* size(deque) * classToSize(class).
RECURSIVE CacheBytes(_, _)
CacheBytes(tc, S) ==
    IF S = {}
    THEN 0
    ELSE LET c == SetMin(S)
         IN DqSize(tc.classLists[c]) * classToSize(c) + CacheBytes(tc, S \ {c})

\* C28: whenever no alloc or dealloc is in progress on a thread cache, its
\* cacheSize is the sum over all classes of size(deque) * classToSize(class),
\* after allocs served from the cache, allocs with a bulk refill, deallocs
\* and donations.
C28_CacheSizeIsSum ==
    \A t \in Threads :
        pc[t] = "idle" =>
            threadCaches[t].cacheSize = CacheBytes(threadCaches[t], Classes)

\* Thread 1 has freed into a full cache and donated, thread 2 has allocated
\* with a bulk refill into its empty cache, and both calls have returned
\* with chunks left in both caches.
C28_Witness ==
    /\ pc[1] = "idle" /\ pc[2] = "idle"
    /\ last[1].op = "dealloc" /\ last[1].donated
    /\ last[2].op = "alloc"
    /\ threadCaches[1].cacheSize > 0
    /\ threadCaches[2].cacheSize > 0

\* The blocks of instance w: walking next from bhead over the blocks the
\* counters span stays on live blocks, ends at btail, and each block's
\* successor points back at it.
LkLinked(w) ==
    LET q == lkq[w]
        n == LkBlocks(q)
        at(i) == LkNth(lkb, q.bhead, i)
    IN /\ \A i \in 0..(n - 1) : at(i) \in DOMAIN lkb
       /\ at(n - 1) = q.btail
       /\ \A i \in 0..(n - 2) : lkb[at(i + 1)].prev = at(i)

\* C29: whenever a BlockedDeque is non-empty, its blocks form a
\* doubly-linked list from bhead to btail with bhead.prev = null and
\* btail.next = null, after every operation (expand of a fresh block, a pop
\* that releases an edge block, both deques of steal_front and
\* splice_front).
C29_NullEndedList ==
    \A w \in {1, 2} :
        lkq[w].bhead # NULL =>
            /\ LkLinked(w)
            /\ lkb[lkq[w].bhead].prev = NULL
            /\ lkb[lkq[w].btail].next = NULL

\* C30: dequeue_back is back() followed by pop_back(): on every non-empty
\* deque that pushes and pops at either end reach, it returns the last
\* element and leaves the deque (its blocks bhead..btail, phead, ptail) as
\* pop_back would, the last block released and the counters reset when the
\* deque drains.
C30_DequeueBackIsPopBack ==
    \A w \in {1, 2} :
        (DqSize(dqs[w]) > 0 /\ DqPopBackOk(dqs[w])) =>
            /\ DqDequeueBackOk(dqs[w])
            /\ DqBackValue(dqs[w]) = DqBack(dqs[w])
            /\ DqDequeueBack(dqs[w]) = DqPopBack(dqs[w])

\* C31: in every reachable deque state empty() (bhead == null) holds exactly
\* when size() == 0 (phead == ptail): an operation that drains the deque
\* releases the last block and resets phead and ptail to 0, and a deque with
\* zero elements never keeps a block.
C31_EmptyIffSizeZero ==
    \A w \in {1, 2} :
        /\ DqEmpty(dqs[w]) <=> DqSize(dqs[w]) = 0
        /\ DqSize(dqs[w]) = 0 => dqs[w] = DqInit

\* The blocks instance w holds: bhead and the blocks next leads to over the
\* span of its counters.
LkOwned(w) ==
    IF lkq[w].bhead = NULL THEN {}
    ELSE LkPath(lkb, lkq[w].bhead, LkBlocks(lkq[w]) - 1) \cup {lkq[w].btail}

\* A step that frees block a pops the last element that block held at the
\* edge of its deque.
LkReleasedEmpty(a) ==
    \E w \in {1, 2} :
        \/ /\ a = lkq[w].bhead /\ a = lkq[w].btail
           /\ LkSize(lkq[w]) = 1
           /\ lkq'[w] = LkInit
        \/ /\ a = lkq[w].btail
           /\ lkq'[w].ptail = lkq[w].ptail - 1
           /\ lkq'[w].ptail % DQBLOCK_SIZE = 0
        \/ /\ a = lkq[w].bhead
           /\ lkq'[w].phead = lkq[w].phead + 1
           /\ lkq'[w].phead % DQBLOCK_SIZE = 0

\* C32: every deque block is owned by exactly one BlockedDeque at any
\* moment: no block is held by both deques, every block a deque holds is
\* live and every live block is held by a deque, a block is released only
\* when the pop has taken the last element it held at that edge, and no
\* operation follows a pointer to a released block.
C32_BlocksOwnedOnce ==
    /\ [](/\ ~lkwild
          /\ LkOwned(1) \cap LkOwned(2) = {}
          /\ LkOwned(1) \cup LkOwned(2) = DOMAIN lkb)
    /\ [][\A a \in DOMAIN lkb \ DOMAIN lkb' : LkReleasedEmpty(a)]_linkVars

\* C33: every splice_front, merge_front and steal_front call the allocator
\* makes is within the operation's precondition. phead of every
\* thread-cache deque and of every central recycled deque is a multiple of
\* 32; the donation a thread is about to make of ceil(e / 2) of its e
\* elements splices floor(ceil(e / 2) / 32) blocks, fewer than the source
\* holds, and the spliced deque has a block-aligned ptail and may be merged
\* into recycled; a recycled deque that bulkAlloc would steal from (it
\* holds elemsPerFetch >= 32 elements) has a full head block, and the
\* destination of a steal holds that one block.
C33_BlockMovesInPrecondition ==
    /\ \A t \in Threads, cl \in Classes :
          threadCaches[t].classLists[cl].phead % DQBLOCK_SIZE = 0
    /\ \A cl \in Classes :
          LET f == central[cl].freeChunks
          IN /\ f.phead % DQBLOCK_SIZE = 0
             /\ (elemsPerFetch(cl) >= DQBLOCK_SIZE
                 /\ DqSize(f) >= elemsPerFetch(cl)) =>
                    /\ Len(f.blocks) >= 1
                    /\ \A i \in 1..DQBLOCK_SIZE : f.blocks[1][i] # NULL
                    /\ DqSize(DqStealFrontDst(f)) = DQBLOCK_SIZE
    /\ \A t \in Threads :
          (~aborted /\ pc[t] = "donate"
           /\ ToDonate(threadCaches[t], loc[t].cl) # {}) =>
              LET cl == SetMin(ToDonate(threadCaches[t], loc[t].cl))
                  src == threadCaches[t].classLists[cl]
                  n == elemsToDonate(DqSize(src))
                  blocks == n \div DQBLOCK_SIZE
                  spliced == DqSpliceFrontRes(src, blocks)
              IN n >= DQBLOCK_SIZE =>
                    /\ blocks < Len(src.blocks)
                    /\ DqSpliceFrontOk(src, blocks)
                    /\ spliced.ptail % DQBLOCK_SIZE = 0
                    /\ DqMergeFrontOk(central[cl].freeChunks, spliced)
    /\ \A t \in Threads :
          pc[t] = "pop" /\ elemsPerFetch(loc[t].cl) >= DQBLOCK_SIZE =>
              /\ DqSize(threadCaches[t].classLists[loc[t].cl]) = DQBLOCK_SIZE
              /\ Len(threadCaches[t].classLists[loc[t].cl].blocks) = 1

\* Thread 1's donation has spliced four blocks off its class-1 deque and
\* merged them into recycled, and a refill has stolen the first of them.
C33_Witness ==
    /\ \A t \in Threads : pc[t] = "idle"
    /\ last[1].op = "dealloc" /\ last[1].donated
    /\ threadCaches[1].classLists[1].phead = 4 * DQBLOCK_SIZE
    /\ central[1].freeChunks.phead = DQBLOCK_SIZE
    /\ DqSize(central[1].freeChunks) = 3 * DQBLOCK_SIZE

\* The locks a thread holds and the lock it is waiting for.
LoHolds(t) ==
    (IF lth[t].at \in {"systake", "sysspin", "sysin", "out"}
     THEN {lth[t].lk} ELSE {})
    \cup (IF lth[t].at = "sysin" THEN {"sys"} ELSE {})
LoWaits(t) ==
    IF lth[t].at \in {"take", "spin"} THEN {lth[t].lk}
    ELSE IF lth[t].at \in {"systake", "sysspin"} THEN {"sys"}
    ELSE {}

\* C34: the allocator is deadlock-free and every operation terminates.
\* Locks nest only in the order (central-list lock or large-heap lock) then
\* region lock: a thread that waits for a list's or the heap's lock holds
\* no lock, a thread that waits for the region lock holds at most one other
\* lock; and under fair scheduling every do_alloc and do_dealloc call a
\* thread starts returns.
C34_CallsReturn ==
    /\ [](\A t \in LoThreads :
            /\ LoWaits(t) \cap OuterLocks # {} => LoHolds(t) = {}
            /\ "sys" \in LoWaits(t) =>
                   LoHolds(t) \subseteq OuterLocks /\ Cardinality(LoHolds(t)) <= 1)
    /\ \A t \in LoThreads : (lth[t].at # "idle") ~> (lth[t].at = "idle")

\* C35: the free index of the large heap agrees with chunkSizes after every
\* alloc and dealloc: every address of freeChunkSets[s] is a key of
\* chunkSizes recorded with size s, a free chunk is in exactly one bucket,
\* and no bucket of the index is empty.
C35_FreeIndexConsistent ==
    /\ \A s \in DOMAIN freeChunkSets :
          /\ freeChunkSets[s] # {}
          /\ \A a \in freeChunkSets[s] :
                /\ a \in DOMAIN chunkSizes
                /\ chunkSizes[a] = s
    /\ \A a \in FreeStarts(freeChunkSets) :
          Cardinality({s \in DOMAIN freeChunkSets : a \in freeChunkSets[s]}) = 1

\* A dealloc has just returned, the index has two buckets, one of them with
\* two chunks, and an earlier alloc emptied a bucket (the span's remainder
\* moved to another size).
C35_Witness ==
    /\ last[1].op = "dealloc"
    /\ ~aborted
    /\ Cardinality(DOMAIN freeChunkSets) >= 2
    /\ \E s \in DOMAIN freeChunkSets : Cardinality(freeChunkSets[s]) >= 2

\* The pages sysAlloc has handed out, numbered from the tracked base, and
\* those of them the sizemap gives class 0: the pages of the spans sysAlloc
\* returned to the large heap (a span of a central list has its list's class
\* on every page).
TrackedPages == 0 .. ((trackedBump - trackedBase) \div 32768) - 1
LargePage(pg) ==
    pg \in TrackedPages /\ pg \in DOMAIN sizemap /\ sizemap[pg] = 0

\* C36: after every alloc and dealloc of the large heap the ranges
\* [a, a + chunkSizes[a]) of the entries of chunkSizes do not overlap, lie in
\* tracked pages of sizemap class 0, and cover the spans the large heap got
\* from sysAlloc exactly: a range ends where the next entry starts or where
\* the class-0 pages end, and every class-0 page starts inside a range, so
\* that no byte of a span is lost and none is counted twice.
C36_ChunksTileSpans ==
    /\ \A a, b \in DOMAIN chunkSizes :
          a < b => a + chunkSizes[a] <= b
    /\ \A a \in DOMAIN chunkSizes :
          /\ chunkSizes[a] > 0
          /\ \A pg \in PageOf(a) .. PageOf(a + chunkSizes[a] - 1) :
                LargePage(pg)
          /\ \/ a + chunkSizes[a] \in DOMAIN chunkSizes
             \/ /\ (a + chunkSizes[a] - trackedBase) % 32768 = 0
                /\ ~LargePage(PageOf(a + chunkSizes[a]))
    /\ \A pg \in TrackedPages :
          LargePage(pg) =>
             \E a \in DOMAIN chunkSizes :
                /\ a <= trackedBase + pg * 32768
                /\ trackedBase + pg * 32768 < a + chunkSizes[a]

\* The large heap holds two spans (sysAlloc was called twice), chunks are
\* in use and free, and the dealloc that just returned merged its chunk
\* into the free chunk before it: the freed start is no longer an entry.
C36_Witness ==
    /\ trackedBump = trackedBase + 2 * 1048576
    /\ last[1].op = "dealloc"
    /\ ~aborted
    /\ last[1].p \notin DOMAIN chunkSizes
    /\ Cardinality(DOMAIN chunkSizes) >= 3
    /\ DOMAIN chunkSizes \ FreeStarts(freeChunkSets) # {}
    /\ FreeStarts(freeChunkSets) # {}

====
